---- MODULE Spec2Model ----
(***************************************************************************)
(* Client management of the window manager (src/client.c): the client      *)
(* record, the registry and the stack, the state setters, the stacking     *)
(* refresh, manage/unmanage and the focus bookkeeping.                     *)
(*                                                                         *)
(* Every C function is an operator over a world record w that holds the    *)
(* whole of globalconf the functions touch; an action applies one entry    *)
(* point to the current world and commits the result.  The log field       *)
(* records, for the operation that ran last, every call-out in order: the  *)
(* Lua hooks ("hook"), the EWMH synchronisation ("ewmh") and the X         *)
(* requests ("xcb"), each with a snapshot of the client at that moment;    *)
(* dirs records its restacking requests and lastop names the operation.    *)
(*                                                                         *)
(* Environment: Xinerama is inactive (a client's screen is its physical    *)
(* screen), no titlebar is ever attached, and the screen's deferred-banning *)
(* flag (client_need_reban) is not part of the state.  Hooks do not call   *)
(* back into the core, except in SpecInvalid, where the unfocus hook may   *)
(* unmanage the client it is called for, and in SpecReentrant, where a     *)
(* property hook may.                                                      *)
(* A walk or recursion over transient_for that never ends is               *)
(* recorded as fault with lastop.err = "endless".                          *)
(*                                                                         *)
(* Specifications:                                                         *)
(*   SpecMode      the six mode setters and the restack on one client      *)
(*   SpecSet       all twelve setters on one client, MaxCalls calls        *)
(*   SpecClassify  the layer of every combination of flags, parent, type   *)
(*   SpecStack     the restack of every configuration of MaxStack clients  *)
(*   SpecLife      manage, tag, focus, ban, unmanage of MaxClients clients *)
(*   SpecRegistry  manage, unmanage, raise, lower, swap of MaxClients      *)
(*   SpecInvalid   every Lua entry point, on valid and invalid clients     *)
(*   SpecFocus     focus, unfocus, ban, unban, tags, sticky, tag selection *)
(*   SpecGain      focus of clients that are minimized, hidden or urgent   *)
(*   SpecMax       maximize and fullscreen of clients with size hints      *)
(*   SpecBorder    border widths, fullscreen and maximize, MaxCalls calls  *)
(*   SpecResize    client_resize of every rectangle, with and without hints*)
(*   SpecHints     client_geometry_hints of every set of hints             *)
(*   SpecLayout    layout_max of every set of tiled clients                *)
(*   SpecReentrant set_fullscreen whose property hook unmanages the client *)
(*   SpecTransient WM_TRANSIENT_FOR changes, self and cycles included      *)
(*   SpecDirty     resize, restack and six setters: the refresh flag       *)
(*   SpecEdge      resizes to rectangles at and past the screen's edges    *)
(*   SpecNotify    the Lua flag assignments that change nothing            *)
(*   SpecContent   resizes to outer sizes around twice the border          *)
(***************************************************************************)
EXTENDS Integers, Sequences, FiniteSets, TLC

VARIABLES cl, clients, stack, dirty, focus, prev, screen_focus, selected,
          worder, dirs, log, fault, lastop, ncalls

vars == <<cl, clients, stack, dirty, focus, prev, screen_focus, selected,
          worder, dirs, log, fault, lastop, ncalls>>

\* ------------------------------------------------------------------ bounds

\* Clients ever managed in one run of the lifecycle specification.
MaxClients == 3
\* Clients of a stacking configuration.
MaxStack == 3
\* Largest border width a caller asks for.
MaxBorder == 2
\* Setter calls made on the client of the setter specification (ncalls counts them).
MaxCalls == 5
\* Width and height of each screen (and of the display area).
ScreenW == 60
ScreenH == 40

Screens == {1, 2}
TagIds == {1}
WindowTypes == {"normal", "desktop", "dock", "splash"}

\* The auxiliary panels (globalconf.wiboxes), in their own order.
wiboxes == << [window |-> 101, ontop |-> FALSE], [window |-> 102, ontop |-> TRUE] >>

NULL == 0
XCB_NONE == 0

\* ------------------------------------------------------------- layers

LAYER_IGNORE == 0
LAYER_DESKTOP == 1
LAYER_BELOW == 2
LAYER_NORMAL == 3
LAYER_ABOVE == 4
LAYER_FULLSCREEN == 5
LAYER_ONTOP == 6
LAYER_COUNT == 7

\* ------------------------------------------------------------- helpers

MAX(a, b) == IF a > b THEN a ELSE b
MIN(a, b) == IF a < b THEN a ELSE b

\* A uint16_t holds its value modulo 2^16.
U16(x) == x % 65536

Area(x, y, width, height) == [x |-> x, y |-> y, width |-> width, height |-> height]

ZeroArea == Area(0, 0, 0, 0)

NoHints == [flags |-> {}, base_width |-> 0, base_height |-> 0,
            min_width |-> 0, min_height |-> 0, max_width |-> 0, max_height |-> 0,
            width_inc |-> 0, height_inc |-> 0,
            min_aspect_num |-> 0, min_aspect_den |-> 0,
            max_aspect_num |-> 0, max_aspect_den |-> 0]

IncHints == [NoHints EXCEPT !.flags = {"P_RESIZE_INC", "P_MIN_SIZE"},
                            !.min_width = 4, !.min_height = 4,
                            !.width_inc = 8, !.height_inc = 8]

\* The record client_new() returns: every field zero.
client_new == [invalid |-> FALSE, win |-> 0, screen |-> 0, phys_screen |-> 0,
               isbanned |-> FALSE, ishidden |-> FALSE, isminimized |-> FALSE,
               issticky |-> FALSE, isurgent |-> FALSE, ismodal |-> FALSE,
               isfullscreen |-> FALSE, ismaxhoriz |-> FALSE, ismaxvert |-> FALSE,
               isabove |-> FALSE, isbelow |-> FALSE, isontop |-> FALSE,
               nofocus |-> FALSE, skiptb |-> FALSE, size_hints_honor |-> FALSE,
               type |-> "normal", transient_for |-> NULL,
               border |-> 0, border_fs |-> 0,
               geometry |-> ZeroArea,
               geometries |-> [internal |-> ZeroArea, fullscreen |-> ZeroArea,
                               max |-> ZeroArea],
               size_hints |-> NoHints, titlebar |-> FALSE, tags |-> {}]

\* The whole of globalconf as one value.
World == [cl |-> cl, clients |-> clients, stack |-> stack, dirty |-> dirty,
          focus |-> focus, prev |-> prev, screen_focus |-> screen_focus,
          selected |-> selected, worder |-> worder, dirs |-> dirs,
          log |-> log, fault |-> fault]

\* One call-out, with the client, the registry and the stack as they are when
\* the call-out is made.
Emit(w, kind, tag, c) ==
    [w EXCEPT !.log = Append(@, [kind |-> kind, tag |-> tag, c |-> c,
                                 snap |-> IF c = NULL THEN client_new ELSE w.cl[c],
                                 clients |-> w.clients, stack |-> w.stack])]

hook_property(w, c, prop) == Emit(w, "hook", prop, c)

ewmh_client_update_hints(w, c) == Emit(w, "ewmh", "hints", c)

ewmh_update_net_active_window(w, c) == Emit(w, "ewmh", "active_window", c)

ewmh_update_net_client_list(w, c) == Emit(w, "ewmh", "client_list", c)

\* client_stack(): the stack needs a refresh.
client_stack(w) == [w EXCEPT !.dirty = TRUE]

SeqRemove(s, e) == SelectSeq(s, LAMBDA x : x # e)

\* stack_client_remove, and client_raise: to the top of the stack.
stack_client_remove(w, c) == [w EXCEPT !.stack = SeqRemove(@, c)]

client_raise(w, c) == client_stack([w EXCEPT !.stack = Append(SeqRemove(@, c), c)])

\* Geometry of a screen; with struts the non-topmost panel's band is left out.
screen_area_get(screen, strut) ==
    IF strut THEN Area(0, 2, ScreenW, ScreenH - 2) ELSE Area(0, 0, ScreenW, ScreenH)

display_area_get(phys_screen) == Area(0, 0, ScreenW, ScreenH)

\* Xinerama inactive: the screen asked about is the answer.
screen_getbycoord(screen, x, y) == screen

screen_client_moveto(w, c, new_screen) == [w EXCEPT !.cl[c].screen = new_screen]

\* Outer rectangle -> content rectangle and back (no titlebar attached).
titlebar_geometry_remove(t, border, geometry) ==
    [geometry EXCEPT !.width = U16(@ - 2 * border), !.height = U16(@ - 2 * border)]

titlebar_geometry_add(t, border, geometry) ==
    [geometry EXCEPT !.width = U16(@ + 2 * border), !.height = U16(@ + 2 * border)]

\* unsigned_subtract(a, b): a - b floored at zero.
unsigned_subtract(a, b) == IF b > a THEN 0 ELSE a - b

\* ------------------------------------------------------ geometry hints

\* AspectStep without "geometry.width = (int) dx + basew".
AspectStep_keepswidth(h, basew, baseh, geometry) ==
    LET dx == geometry.width - basew
        dy == geometry.height - baseh
        mn == h.min_aspect_num
        md == h.min_aspect_den
        mx == h.max_aspect_num
        num == dx * mn * md + dy * md * md
    IN IF "P_ASPECT" \in h.flags /\ mn > 0 /\ md > 0 /\ dy > 0 /\ dx > 0 /\ mx > 0
       THEN IF dx * md < mn * dy
            THEN [geometry EXCEPT !.height = (num \div (mn * mn + md * md)) + baseh]
            ELSE IF dx * md > mx * dy
            THEN [geometry EXCEPT !.height = (num \div (mx * mx + md * md)) + baseh]
            ELSE geometry
       ELSE geometry

\* The aspect step of client_geometry_hints.  The C code works in doubles and
\* truncates with (int); here the same quotients are taken exactly, with
\* min = mn/md and max = mx/md (the min denominator).  The comparisons of the
\* ratio agree with the doubles; a quotient that is a whole number may come
\* out one lower in doubles when the rounding of min falls below it.
AspectStep(h, basew, baseh, geometry) ==
    LET dx == geometry.width - basew
        dy == geometry.height - baseh
        mn == h.min_aspect_num
        md == h.min_aspect_den
        mx == h.max_aspect_num
        num == dx * mn * md + dy * md * md
    IN IF "P_ASPECT" \in h.flags /\ mn > 0 /\ md > 0 /\ dy > 0 /\ dx > 0 /\ mx > 0
       THEN IF dx * md < mn * dy
            THEN \* dy = (dx * min + dy) / (min * min + 1); dx = dy * min
                 [geometry EXCEPT
                    !.width = ((num * mn) \div ((mn * mn + md * md) * md)) + basew,
                    !.height = (num \div (mn * mn + md * md)) + baseh]
            ELSE IF dx * md > mx * dy
            THEN \* dy = (dx * min + dy) / (max * max + 1); dx = dy * min
                 [geometry EXCEPT
                    !.width = ((num * mn) \div ((mx * mx + md * md) * md)) + basew,
                    !.height = (num \div (mx * mx + md * md)) + baseh]
            ELSE geometry
       ELSE geometry

\* base size is substituted with min size if not specified
HintsBase(h) ==
    IF "P_SIZE" \in h.flags THEN [w |-> h.base_width, h |-> h.base_height]
    ELSE IF "P_MIN_SIZE" \in h.flags THEN [w |-> h.min_width, h |-> h.min_height]
    ELSE [w |-> 0, h |-> 0]

\* min size is substituted with base size if not specified
HintsMin(h) ==
    IF "P_MIN_SIZE" \in h.flags THEN [w |-> h.min_width, h |-> h.min_height]
    ELSE IF "P_SIZE" \in h.flags THEN [w |-> h.base_width, h |-> h.base_height]
    ELSE [w |-> 0, h |-> 0]

\* if(minw) ...; if(minh) ...
MinStep(min, geometry) ==
    [geometry EXCEPT !.width = IF min.w # 0 THEN MAX(@, min.w) ELSE @,
                     !.height = IF min.h # 0 THEN MAX(@, min.h) ELSE @]

\* MaxStep without the test of P_MAX_SIZE.
MaxStep_noflag(h, geometry) ==
    [geometry EXCEPT
       !.width = IF h.max_width # 0 THEN MIN(@, h.max_width) ELSE @,
       !.height = IF h.max_height # 0 THEN MIN(@, h.max_height) ELSE @]

\* if(flags & P_MAX_SIZE) ...
MaxStep(h, geometry) ==
    IF "P_MAX_SIZE" \in h.flags
    THEN [geometry EXCEPT
            !.width = IF h.max_width # 0 THEN MIN(@, h.max_width) ELSE @,
            !.height = IF h.max_height # 0 THEN MIN(@, h.max_height) ELSE @]
    ELSE geometry

\* IncStep with t1 -= basew in place of unsigned_subtract(t1, basew).
IncStep_wraps(h, base, geometry) ==
    IF h.flags \cap {"P_RESIZE_INC", "BASE_SIZE"} # {}
       /\ h.width_inc # 0 /\ h.height_inc # 0
    THEN [geometry EXCEPT
            !.width = U16(@ - (U16(U16(geometry.width) - base.w) % h.width_inc)),
            !.height = U16(@ - (U16(U16(geometry.height) - base.h) % h.height_inc))]
    ELSE geometry

\* if(flags & (P_RESIZE_INC | BASE_SIZE) && width_inc && height_inc) ...
IncStep(h, base, geometry) ==
    IF h.flags \cap {"P_RESIZE_INC", "BASE_SIZE"} # {}
       /\ h.width_inc # 0 /\ h.height_inc # 0
    THEN [geometry EXCEPT
            !.width = U16(@ - (unsigned_subtract(U16(geometry.width), base.w)
                               % h.width_inc)),
            !.height = U16(@ - (unsigned_subtract(U16(geometry.height), base.h)
                                % h.height_inc))]
    ELSE geometry

client_geometry_hints(h, geometry) ==
    IncStep(h, HintsBase(h),
            MaxStep(h, MinStep(HintsMin(h),
                               AspectStep(h, HintsBase(h).w, HintsBase(h).h, geometry))))

\* ------------------------------------------------------------- resize

\* offscreen appearance fixes, one "if" each
FixRight(geometry, area) ==
    IF geometry.x > area.width
    THEN [geometry EXCEPT !.x = area.width - geometry.width] ELSE geometry

FixBottom(geometry, area) ==
    IF geometry.y > area.height
    THEN [geometry EXCEPT !.y = area.height - geometry.height] ELSE geometry

FixLeft(geometry) ==
    IF geometry.x + geometry.width < 0 THEN [geometry EXCEPT !.x = 0] ELSE geometry

FixTop(geometry) ==
    IF geometry.y + geometry.height < 0 THEN [geometry EXCEPT !.y = 0] ELSE geometry

\* geometry_internal of client_resize for the client record cr
GeometryInternal(cr, area, geometry, hints) ==
    IF hints
    THEN client_geometry_hints(cr.size_hints,
             titlebar_geometry_remove(cr.titlebar, cr.border,
                 FixTop(FixLeft(FixBottom(FixRight(geometry, area), area)))))
    ELSE titlebar_geometry_remove(cr.titlebar, cr.border,
             FixTop(FixLeft(FixBottom(FixRight(geometry, area), area))))

\* ResizeInternal with the zero test on the width alone.
ResizeInternal_widthonly(w, c, geometry_internal) ==
    IF geometry_internal.width = 0
    THEN [w |-> w, changed |-> FALSE]
    ELSE IF w.cl[c].geometries.internal # geometry_internal
    THEN [w |-> hook_property(
                    [w EXCEPT !.cl[c].geometries.internal = geometry_internal,
                              !.cl[c].geometry =
                                  titlebar_geometry_add(w.cl[c].titlebar, w.cl[c].border,
                                                        geometry_internal)],
                    c, "geometry"),
          changed |-> TRUE]
    ELSE [w |-> w, changed |-> FALSE]

\* ResizeInternal without the test against the stored content rectangle.
ResizeInternal_always(w, c, geometry_internal) ==
    IF geometry_internal.width = 0 \/ geometry_internal.height = 0
    THEN [w |-> w, changed |-> FALSE]
    ELSE [w |-> hook_property(
                    [w EXCEPT !.cl[c].geometries.internal = geometry_internal,
                              !.cl[c].geometry =
                                  titlebar_geometry_add(w.cl[c].titlebar, w.cl[c].border,
                                                        geometry_internal)],
                    c, "geometry"),
          changed |-> TRUE]

\* ResizeInternal without the test for a zero width or height.
ResizeInternal_nozero(w, c, geometry_internal) ==
    IF w.cl[c].geometries.internal # geometry_internal
    THEN [w |-> hook_property(
                    [w EXCEPT !.cl[c].geometries.internal = geometry_internal,
                              !.cl[c].geometry =
                                  titlebar_geometry_add(w.cl[c].titlebar, w.cl[c].border,
                                                        geometry_internal)],
                    c, "geometry"),
          changed |-> TRUE]
    ELSE [w |-> w, changed |-> FALSE]

\* client_resize from "if(geometry_internal.width == 0 || ..." on
ResizeInternal(w, c, geometry_internal) ==
    IF geometry_internal.width = 0 \/ geometry_internal.height = 0
    THEN [w |-> w, changed |-> FALSE]
    ELSE IF w.cl[c].geometries.internal # geometry_internal
    THEN LET w1 == [w EXCEPT !.cl[c].geometries.internal = geometry_internal,
                             !.cl[c].geometry =
                                 titlebar_geometry_add(w.cl[c].titlebar, w.cl[c].border,
                                                       geometry_internal)]
             w2 == Emit(w1, "xcb", "configure_geometry", c)
             w3 == screen_client_moveto(w2, c,
                       screen_getbycoord(w.cl[c].screen,
                                         geometry_internal.x, geometry_internal.y))
         IN [w |-> hook_property(w3, c, "geometry"), changed |-> TRUE]
    ELSE [w |-> w, changed |-> FALSE]

\* client_resize: the world after the call and the value returned.
client_resize(w, c, geometry, hints) ==
    ResizeInternal(w, c, GeometryInternal(w.cl[c], display_area_get(w.cl[c].phys_screen),
                                          geometry, hints))

\* ------------------------------------------------------------- setters

client_seturgent(w, c, urgent) ==
    IF w.cl[c].isurgent # urgent
    THEN LET w1 == [w EXCEPT !.cl[c].isurgent = urgent]
             w2 == ewmh_client_update_hints(w1, c)
             w3 == Emit(w2, "xcb", "wm_hints", c)
         IN hook_property(w3, c, "urgent")
    ELSE w

client_setminimized(w, c, s) ==
    IF w.cl[c].isminimized # s
    THEN LET w1 == [w EXCEPT !.cl[c].isminimized = s]
             w2 == Emit(w1, "xcb", IF s THEN "state_iconic" ELSE "state_normal", c)
             w3 == ewmh_client_update_hints(w2, c)
         IN hook_property(w3, c, "minimized")
    ELSE w

\* client_setsticky without the "if(c->issticky != s)" test.
client_setsticky_always(w, c, s) ==
    hook_property(ewmh_client_update_hints([w EXCEPT !.cl[c].issticky = s], c),
                  c, "sticky")

client_setsticky(w, c, s) ==
    IF w.cl[c].issticky # s
    THEN LET w1 == [w EXCEPT !.cl[c].issticky = s]
             w2 == ewmh_client_update_hints(w1, c)
         IN hook_property(w2, c, "sticky")
    ELSE w

client_setmodal(w, c, s) ==
    IF w.cl[c].ismodal # s
    THEN LET w1 == [w EXCEPT !.cl[c].ismodal = s]
             w2 == client_stack(w1)
             w3 == ewmh_client_update_hints(w2, c)
         IN hook_property(w3, c, "modal")
    ELSE w

\* luaA_client_newindex, A_TK_HIDE.
client_sethidden(w, c, b) ==
    IF b # w.cl[c].ishidden
    THEN hook_property([w EXCEPT !.cl[c].ishidden = b], c, "hide")
    ELSE w

\* client_setborder without "Update geometry with the new border".
client_setborder_keepsgeometry(w, c, width) ==
    IF width > 0 /\ (w.cl[c].type \in {"dock", "splash", "desktop"}
                     \/ w.cl[c].isfullscreen)
    THEN w
    ELSE IF width = w.cl[c].border \/ width < 0
    THEN w
    ELSE hook_property(Emit([w EXCEPT !.cl[c].border = width],
                            "xcb", "configure_border", c),
                       c, "border_width")

client_setborder(w, c, width) ==
    IF width > 0 /\ (w.cl[c].type \in {"dock", "splash", "desktop"}
                     \/ w.cl[c].isfullscreen)
    THEN w
    ELSE IF width = w.cl[c].border \/ width < 0
    THEN w
    ELSE LET old == w.cl[c].border
             w1 == [w EXCEPT
                      !.cl[c].geometry.width = U16(U16(@ - 2 * old) + 2 * width),
                      !.cl[c].geometry.height = U16(U16(@ - 2 * old) + 2 * width),
                      !.cl[c].border = width]
             w2 == Emit(w1, "xcb", "configure_border", c)
         IN hook_property(w2, c, "border_width")

\* A setter called with false never enters its "if(s)" block, so it calls no
\* other setter: UnsetX is client_setX(c, false), and client_setX(c, true)
\* calls the UnsetY of the modes it clears.

\* client_setfullscreen(c, false)
UnsetFullscreen(w, c) ==
    IF w.cl[c].isfullscreen
    THEN LET w2 == client_setborder([w EXCEPT !.cl[c].isfullscreen = FALSE], c,
                                    w.cl[c].border_fs)
             w3 == client_resize(w2, c, w.cl[c].geometries.fullscreen, FALSE).w
             w4 == client_stack(w3)
             w5 == ewmh_client_update_hints(w4, c)
         IN hook_property(w5, c, "fullscreen")
    ELSE w

\* client_setmaxhoriz(c, false)
UnsetMaxHoriz(w, c) ==
    IF w.cl[c].ismaxhoriz
    THEN LET w3 == client_resize([w EXCEPT !.cl[c].ismaxhoriz = FALSE], c,
                                 [w.cl[c].geometry EXCEPT
                                    !.x = w.cl[c].geometries.max.x,
                                    !.width = w.cl[c].geometries.max.width],
                                 w.cl[c].size_hints_honor).w
             w4 == client_stack(w3)
             w5 == ewmh_client_update_hints(w4, c)
         IN hook_property(w5, c, "maximized_horizontal")
    ELSE w

\* client_setmaxvert(c, false)
UnsetMaxVert(w, c) ==
    IF w.cl[c].ismaxvert
    THEN LET w3 == client_resize([w EXCEPT !.cl[c].ismaxvert = FALSE], c,
                                 [w.cl[c].geometry EXCEPT
                                    !.y = w.cl[c].geometries.max.y,
                                    !.height = w.cl[c].geometries.max.height],
                                 w.cl[c].size_hints_honor).w
             w4 == client_stack(w3)
             w5 == ewmh_client_update_hints(w4, c)
         IN hook_property(w5, c, "maximized_vertical")
    ELSE w

\* client_setabove(c, false) without its hook_property.
UnsetAbove_silent(w, c) ==
    IF w.cl[c].isabove
    THEN ewmh_client_update_hints(client_stack([w EXCEPT !.cl[c].isabove = FALSE]), c)
    ELSE w

\* client_setabove(c, false)
UnsetAbove(w, c) ==
    IF w.cl[c].isabove
    THEN LET w2 == [w EXCEPT !.cl[c].isabove = FALSE]
             w3 == client_stack(w2)
             w4 == ewmh_client_update_hints(w3, c)
         IN hook_property(w4, c, "above")
    ELSE w

\* client_setbelow(c, false)
UnsetBelow(w, c) ==
    IF w.cl[c].isbelow
    THEN LET w2 == [w EXCEPT !.cl[c].isbelow = FALSE]
             w3 == client_stack(w2)
             w4 == ewmh_client_update_hints(w3, c)
         IN hook_property(w4, c, "below")
    ELSE w

\* client_setontop(c, false)
UnsetOntop(w, c) ==
    IF w.cl[c].isontop
    THEN LET w2 == [w EXCEPT !.cl[c].isontop = FALSE]
             w3 == client_stack(w2)
         IN hook_property(w3, c, "ontop")
    ELSE w

\* client_setfullscreen(c, true) once the other modes are cleared
BecomeFullscreen(w, c) ==
    LET w2 == client_setborder([w EXCEPT
                                  !.cl[c].geometries.fullscreen = w.cl[c].geometry,
                                  !.cl[c].border_fs = w.cl[c].border], c, 0)
        w3 == client_resize(w2, c, screen_area_get(w.cl[c].screen, FALSE), FALSE).w
        w4 == client_stack(w3)
        w5 == ewmh_client_update_hints(w4, c)
    IN hook_property(w5, c, "fullscreen")

\* client_setfullscreen without "remove any max state".
client_setfullscreen_keepsmax(w, c, s) ==
    IF ~s THEN UnsetFullscreen(w, c)
    ELSE IF ~w.cl[c].isfullscreen
    THEN BecomeFullscreen(
             UnsetOntop(UnsetAbove(UnsetBelow(
                 [w EXCEPT !.cl[c].isfullscreen = TRUE], c), c), c), c)
    ELSE w

client_setfullscreen(w, c, s) ==
    IF ~s THEN UnsetFullscreen(w, c)
    ELSE IF ~w.cl[c].isfullscreen
    THEN BecomeFullscreen(
             UnsetOntop(UnsetAbove(UnsetBelow(UnsetMaxVert(UnsetMaxHoriz(
                 [w EXCEPT !.cl[c].isfullscreen = TRUE], c), c), c), c), c), c)
    ELSE w

\* client_setmaxhoriz(c, true) once fullscreen is cleared
BecomeMaxHoriz(w, c) ==
    LET w3 == client_resize([w EXCEPT
                               !.cl[c].geometries.max.x = w.cl[c].geometry.x,
                               !.cl[c].geometries.max.width = w.cl[c].geometry.width],
                            c,
                            [screen_area_get(w.cl[c].screen, TRUE) EXCEPT
                               !.y = w.cl[c].geometry.y,
                               !.height = w.cl[c].geometry.height],
                            w.cl[c].size_hints_honor).w
        w4 == client_stack(w3)
        w5 == ewmh_client_update_hints(w4, c)
    IN hook_property(w5, c, "maximized_horizontal")

client_setmaxhoriz(w, c, s) ==
    IF ~s THEN UnsetMaxHoriz(w, c)
    ELSE IF ~w.cl[c].ismaxhoriz
    THEN BecomeMaxHoriz(UnsetFullscreen([w EXCEPT !.cl[c].ismaxhoriz = TRUE], c), c)
    ELSE w

\* client_setmaxvert(c, true) once fullscreen is cleared
BecomeMaxVert(w, c) ==
    LET w3 == client_resize([w EXCEPT
                               !.cl[c].geometries.max.y = w.cl[c].geometry.y,
                               !.cl[c].geometries.max.height = w.cl[c].geometry.height],
                            c,
                            [screen_area_get(w.cl[c].screen, TRUE) EXCEPT
                               !.x = w.cl[c].geometry.x,
                               !.width = w.cl[c].geometry.width],
                            w.cl[c].size_hints_honor).w
        w4 == client_stack(w3)
        w5 == ewmh_client_update_hints(w4, c)
    IN hook_property(w5, c, "maximized_vertical")

client_setmaxvert(w, c, s) ==
    IF ~s THEN UnsetMaxVert(w, c)
    ELSE IF ~w.cl[c].ismaxvert
    THEN BecomeMaxVert(UnsetFullscreen([w EXCEPT !.cl[c].ismaxvert = TRUE], c), c)
    ELSE w

client_setabove(w, c, s) ==
    IF ~s THEN UnsetAbove(w, c)
    ELSE IF ~w.cl[c].isabove
    THEN LET w1 == UnsetFullscreen(UnsetOntop(UnsetBelow(w, c), c), c)
             w2 == [w1 EXCEPT !.cl[c].isabove = TRUE]
             w3 == client_stack(w2)
             w4 == ewmh_client_update_hints(w3, c)
         IN hook_property(w4, c, "above")
    ELSE w

client_setbelow(w, c, s) ==
    IF ~s THEN UnsetBelow(w, c)
    ELSE IF ~w.cl[c].isbelow
    THEN LET w1 == UnsetFullscreen(UnsetOntop(UnsetAbove(w, c), c), c)
             w2 == [w1 EXCEPT !.cl[c].isbelow = TRUE]
             w3 == client_stack(w2)
             w4 == ewmh_client_update_hints(w3, c)
         IN hook_property(w4, c, "below")
    ELSE w

\* client_setontop without the "if(s)" block.
client_setontop_keeps(w, c, s) ==
    IF w.cl[c].isontop # s
    THEN hook_property(client_stack([w EXCEPT !.cl[c].isontop = s]), c, "ontop")
    ELSE w

client_setontop(w, c, s) ==
    IF ~s THEN UnsetOntop(w, c)
    ELSE IF ~w.cl[c].isontop
    THEN LET w1 == UnsetFullscreen(UnsetBelow(UnsetAbove(w, c), c), c)
             w2 == [w1 EXCEPT !.cl[c].isontop = TRUE]
             w3 == client_stack(w2)
         IN hook_property(w3, c, "ontop")
    ELSE w

\* -------------------------------------------------- visibility and focus

is_client_tagged(w, c, tag) == tag \in w.cl[c].tags

client_maybevisible(w, c, screen) ==
    /\ w.cl[c].screen = screen
    /\ \/ w.cl[c].issticky
       \/ w.cl[c].type = "desktop"
       \/ \E tag \in TagIds : tag \in w.selected[screen] /\ is_client_tagged(w, c, tag)

\* client_unfocus_update without the assignment to client_focus.
client_unfocus_update_keepsfocus(w, c) ==
    Emit(ewmh_update_net_active_window(w, c), "hook", "unfocus", c)

client_unfocus_update(w, c) ==
    LET w1 == [w EXCEPT !.focus[w.cl[c].phys_screen] = NULL]
        w2 == ewmh_update_net_active_window(w1, c)
    IN Emit(w2, "hook", "unfocus", c)

client_unfocus(w, c) ==
    client_unfocus_update(Emit(w, "xcb", "set_input_focus_root", c), c)

client_setfocus(w, c, set_input_focus) ==
    IF set_input_focus THEN Emit(w, "xcb", "set_input_focus", c) ELSE w

\* if(prev_client_focus == c) prev_client_focus = NULL;
ForgetPrevFocus(w, c) ==
    IF w.prev[w.cl[c].phys_screen] = c
    THEN [w EXCEPT !.prev[w.cl[c].phys_screen] = NULL] ELSE w

\* if(client_focus == c) client_unfocus(c);
UnfocusIfFocused(w, c) ==
    IF w.focus[w.cl[c].phys_screen] = c THEN client_unfocus(w, c) ELSE w

\* client_ban without the prev_client_focus test.
client_ban_keepsprev(w, c) ==
    IF ~w.cl[c].isbanned
    THEN UnfocusIfFocused([Emit(w, "xcb", "unmap_window", c)
                             EXCEPT !.cl[c].isbanned = TRUE], c)
    ELSE w

client_ban(w, c) ==
    IF ~w.cl[c].isbanned
    THEN UnfocusIfFocused(
             ForgetPrevFocus([Emit(w, "xcb", "unmap_window", c)
                                EXCEPT !.cl[c].isbanned = TRUE], c), c)
    ELSE w

client_unban(w, c) ==
    IF w.cl[c].isbanned
    THEN [Emit(w, "xcb", "map_window", c) EXCEPT !.cl[c].isbanned = FALSE]
    ELSE w

RECURSIVE client_focus_update(_, _)
RECURSIVE client_focus(_, _)

\* client_focus_update without "client_seturgent(c, false)".
client_focus_update_keepsurgent(w, c) ==
    IF ~client_maybevisible(w, c, w.cl[c].screen)
    THEN IF w.screen_focus = NULL THEN [w EXCEPT !.fault = TRUE]
         ELSE client_focus(w, w.prev[w.screen_focus])
    ELSE IF w.screen_focus # NULL /\ w.focus[w.screen_focus] # NULL
            /\ w.focus[w.screen_focus] = c
    THEN w
    ELSE LET w1 == IF w.screen_focus # NULL /\ w.focus[w.screen_focus] # NULL
                   THEN client_unfocus_update(w, w.focus[w.screen_focus])
                   ELSE w
             w2 == [w1 EXCEPT !.cl[c].ishidden = FALSE]
             w3 == client_setminimized(w2, c, FALSE)
             w4 == client_unban(w3, c)
             ps == w.cl[c].phys_screen
             w5 == [w4 EXCEPT !.screen_focus = ps, !.prev[ps] = c, !.focus[ps] = c]
             w7 == ewmh_update_net_active_window(w5, c)
         IN Emit(w7, "hook", "focus", c)

\* A NULL pointer dereferenced ends the program: fault.
client_focus_update(w, c) ==
    IF ~client_maybevisible(w, c, w.cl[c].screen)
    THEN IF w.screen_focus = NULL THEN [w EXCEPT !.fault = TRUE]
         ELSE client_focus(w, w.prev[w.screen_focus])
    ELSE IF w.screen_focus # NULL /\ w.focus[w.screen_focus] # NULL
            /\ w.focus[w.screen_focus] = c
    THEN w
    ELSE LET w1 == IF w.screen_focus # NULL /\ w.focus[w.screen_focus] # NULL
                   THEN client_unfocus_update(w, w.focus[w.screen_focus])
                   ELSE w
             w2 == [w1 EXCEPT !.cl[c].ishidden = FALSE]
             w3 == client_setminimized(w2, c, FALSE)
             w4 == client_unban(w3, c)
             ps == w.cl[c].phys_screen
             w5 == [w4 EXCEPT !.screen_focus = ps, !.prev[ps] = c, !.focus[ps] = c]
             w6 == client_seturgent(w5, c, FALSE)
             w7 == ewmh_update_net_active_window(w6, c)
         IN Emit(w7, "hook", "focus", c)

client_focus(w, c0) ==
    LET c == IF c0 = NULL /\ Len(w.clients) # 0 THEN w.clients[1] ELSE c0
    IN IF c = NULL THEN [w EXCEPT !.fault = TRUE]
       ELSE IF ~client_maybevisible(w, c, w.cl[c].screen) THEN w
       ELSE LET w1 == IF ~w.cl[c].nofocus THEN client_focus_update(w, c) ELSE w
            IN IF w1.fault THEN w1 ELSE client_setfocus(w1, c, ~w.cl[c].nofocus)

\* ------------------------------------------------------------ stacking

\* The X server's stacking order, bottom to top, after one configure request
\* "win directly above sibling"; with no sibling, win goes to the bottom.  A
\* request that names win as its own sibling is refused and moves nothing.
ConfigureStack(order, win, sibling) ==
    IF sibling = XCB_NONE THEN <<win>> \o SeqRemove(order, win)
    ELSE IF sibling = win \/ \A i \in 1..Len(order) : order[i] # sibling THEN order
    ELSE LET rest == SeqRemove(order, win)
             at == CHOOSE i \in 1..Len(rest) : rest[i] = sibling
         IN SubSeq(rest, 1, at) \o <<win>> \o SubSeq(rest, at + 1, Len(rest))

\* One restacking request; dirs records it with the refresh flag at that moment.
xcb_configure_window_stack(w, win, sibling) ==
    [w EXCEPT !.worder = ConfigureStack(@, win, sibling),
              !.dirs = Append(@, [win |-> win, sibling |-> sibling,
                                  dirty |-> w.dirty])]

TitlebarWindow(c) == 200 + c

RECURSIVE client_stack_above(_, _, _)
RECURSIVE StackTransients(_, _, _, _)

\* client_stack_above: the world after the call and the window returned.
client_stack_above(w, c, previous) ==
    IF w.cl[c].titlebar
    THEN StackTransients(
             xcb_configure_window_stack(
                 xcb_configure_window_stack(w, w.cl[c].win, previous),
                 TitlebarWindow(c), w.cl[c].win),
             c, 1, TitlebarWindow(c))
    ELSE StackTransients(xcb_configure_window_stack(w, w.cl[c].win, previous),
                         c, 1, w.cl[c].win)

\* foreach(node, globalconf.stack) from position i on.
StackTransients(w, c, i, previous) ==
    IF i > Len(w.stack) THEN [w |-> w, previous |-> previous]
    ELSE IF w.cl[w.stack[i]].transient_for = c
    THEN LET r == client_stack_above(w, w.stack[i], previous)
         IN StackTransients(r.w, c, i + 1, r.previous)
    ELSE StackTransients(w, c, i + 1, previous)

RECURSIVE Recurses(_, _, _)
\* The recursion of client_stack_above from c makes a call n levels down.  A
\* chain of more calls than the stack has members names a client twice, and
\* from that client the same calls are made again: the recursion never ends.
Recurses(w, c, n) ==
    IF n = 0 THEN TRUE
    ELSE \E i \in 1..Len(w.stack) :
            w.cl[w.stack[i]].transient_for = c /\ Recurses(w, w.stack[i], n - 1)

\* client_layer_translator with the fullscreen test before the ontop test.
client_layer_translator_fsfirst(c) ==
    IF c.isfullscreen THEN LAYER_FULLSCREEN
    ELSE IF c.isontop THEN LAYER_ONTOP
    ELSE IF c.isabove THEN LAYER_ABOVE
    ELSE IF c.isbelow THEN LAYER_BELOW
    ELSE IF c.transient_for # NULL THEN LAYER_IGNORE
    ELSE IF c.type = "desktop" THEN LAYER_DESKTOP
    ELSE LAYER_NORMAL

client_layer_translator(c) ==
    IF c.isontop THEN LAYER_ONTOP
    ELSE IF c.isfullscreen THEN LAYER_FULLSCREEN
    ELSE IF c.isabove THEN LAYER_ABOVE
    ELSE IF c.isbelow THEN LAYER_BELOW
    ELSE IF c.transient_for # NULL THEN LAYER_IGNORE
    ELSE IF c.type = "desktop" THEN LAYER_DESKTOP
    ELSE LAYER_NORMAL

RECURSIVE StackLayer(_, _, _, _)
\* foreach(node, globalconf.stack) of one layer, from position i on.
StackLayer(w, layer, i, previous) ==
    IF i > Len(w.stack) THEN [w |-> w, previous |-> previous]
    ELSE IF client_layer_translator(w.cl[w.stack[i]]) = layer
    THEN LET r == client_stack_above(w, w.stack[i], previous)
         IN StackLayer(r.w, layer, i + 1, r.previous)
    ELSE StackLayer(w, layer, i + 1, previous)

RECURSIVE StackLayers(_, _, _, _)
\* for(layer = from; layer < upto; layer++)
StackLayers(w, layer, upto, previous) ==
    IF layer >= upto THEN [w |-> w, previous |-> previous]
    ELSE LET r == StackLayer(w, layer, 1, previous)
         IN StackLayers(r.w, layer + 1, upto, r.previous)

RECURSIVE StackWiboxes(_, _, _, _)
\* foreach(_sb, globalconf.wiboxes) with sb->ontop = ontop, from position i on.
StackWiboxes(w, ontop, i, previous) ==
    IF i > Len(wiboxes) THEN [w |-> w, previous |-> previous]
    ELSE IF wiboxes[i].ontop = ontop
    THEN StackWiboxes(xcb_configure_window_stack(w, wiboxes[i].window, previous),
                      ontop, i + 1, wiboxes[i].window)
    ELSE StackWiboxes(w, ontop, i + 1, previous)

\* The two loops of client_stack_refresh continuing from config_win_vals[0].
StackLayersFrom(r, layer, upto) == StackLayers(r.w, layer, upto, r.previous)

StackWiboxesFrom(r, ontop) == StackWiboxes(r.w, ontop, 1, r.previous)

\* client_stack_refresh with the panels placed after the below layer.
client_stack_refresh_panelslate(w) ==
    IF ~w.dirty THEN w
    ELSE StackWiboxesFrom(
             StackLayersFrom(
                 StackWiboxesFrom(
                     StackLayers([w EXCEPT !.dirty = FALSE],
                                 LAYER_DESKTOP, LAYER_NORMAL, XCB_NONE),
                     FALSE),
                 LAYER_NORMAL, LAYER_COUNT),
             TRUE).w

\* client_stack_refresh without "client_need_stack_refresh = false".
client_stack_refresh_keepsflag(w) ==
    IF ~w.dirty THEN w
    ELSE StackWiboxesFrom(
             StackLayersFrom(
                 StackWiboxesFrom(
                     StackLayers(w, LAYER_DESKTOP, LAYER_BELOW, XCB_NONE), FALSE),
                 LAYER_BELOW, LAYER_COUNT),
             TRUE).w

client_stack_refresh(w) ==
    IF ~w.dirty THEN w
    ELSE StackWiboxesFrom(
             StackLayersFrom(
                 StackWiboxesFrom(
                     StackLayers([w EXCEPT !.dirty = FALSE],
                                 LAYER_DESKTOP, LAYER_BELOW, XCB_NONE),
                     FALSE),
                 LAYER_BELOW, LAYER_COUNT),
             TRUE).w

\* ------------------------------------------------- manage and unmanage

RECURSIVE Walks(_, _, _)
\* "for(tc = c; tc->transient_for; tc = tc->transient_for);" is still running
\* after n steps.  After as many steps as there are clients it has been at one
\* client twice, and never ends.
Walks(w, tc, n) ==
    IF w.cl[tc].transient_for = NULL THEN FALSE
    ELSE IF n = 0 THEN TRUE
    ELSE Walks(w, w.cl[tc].transient_for, n - 1)

RECURSIVE TransientRoot(_, _)
\* for(tc = c; tc->transient_for; tc = tc->transient_for);
TransientRoot(w, tc) ==
    IF w.cl[tc].transient_for # NULL THEN TransientRoot(w, w.cl[tc].transient_for)
    ELSE tc

\* client_manage up to client_setborder: the new client c, its initial values.
ManageNew(w, c, wgeom, phys_screen) ==
    client_setborder(
        [w EXCEPT !.cl = Append(@, [client_new EXCEPT
                      !.screen = screen_getbycoord(phys_screen, wgeom.x, wgeom.y),
                      !.phys_screen = phys_screen,
                      !.isbanned = TRUE,
                      !.win = c,
                      !.geometry = Area(wgeom.x, wgeom.y, wgeom.width, wgeom.height),
                      !.geometries.internal =
                          Area(wgeom.x, wgeom.y, wgeom.width, wgeom.height)]),
                  !.clients = Append(@, c)],
        c, wgeom.border_width)

\* property_update_wm_normal_hints, _wm_hints, _wm_transient_for.
ManageHints(w, c, env) ==
    [w EXCEPT !.cl[c].size_hints_honor = TRUE,
              !.cl[c].size_hints = env.size_hints,
              !.cl[c].nofocus = env.nofocus,
              !.cl[c].transient_for = env.transient_for]

\* The screen client_manage moves the client to.
ManageScreen(w, c, tc) ==
    IF tc # c /\ w.cl[tc].phys_screen = w.cl[c].phys_screen
    THEN w.cl[tc].screen ELSE w.cl[c].screen

\* ManagePlace without "Push client in stack".
ManagePlace_noraise(w, c, env) ==
    LET w6 == screen_client_moveto([w EXCEPT !.cl[c].type = env.type], c,
                                   ManageScreen(w, c, TransientRoot(w, c)))
        w8 == ewmh_update_net_client_list(w6, c)
        w9 == Emit(w8, "xcb", "state_normal", c)
        w10 == Emit(w9, "hook", "clients", NULL)
    IN Emit(w10, "hook", "manage", c)

\* client_manage from "Recursively find the parent" on.
ManagePlace(w, c, env) ==
    LET w6 == screen_client_moveto([w EXCEPT !.cl[c].type = env.type], c,
                                   ManageScreen(w, c, TransientRoot(w, c)))
        w7 == client_raise(w6, c)
        w8 == ewmh_update_net_client_list(w7, c)
        w9 == Emit(w8, "xcb", "state_normal", c)
        w10 == Emit(w9, "hook", "clients", NULL)
    IN Emit(w10, "hook", "manage", c)

\* client_manage.  env is what the window's properties say when they are read:
\* its type, its transient parent, its size hints and whether it refuses focus.
client_manage(w, wgeom, phys_screen, startup, env) ==
    ManagePlace(ManageHints(ManageNew(w, Len(w.cl) + 1, wgeom, phys_screen),
                            Len(w.cl) + 1, env),
                Len(w.cl) + 1, env)

RECURSIVE ResetTransients_first(_, _, _)
\* The reset loop leaving at the first client it resets.
ResetTransients_first(w, c, i) ==
    IF i > Len(w.clients) THEN w
    ELSE IF w.cl[w.clients[i]].transient_for = c
    THEN [w EXCEPT !.cl[w.clients[i]].transient_for = NULL]
    ELSE ResetTransients_first(w, c, i + 1)

RECURSIVE ResetTransients(_, _, _)
\* foreach(_tc, globalconf.clients) if(tc->transient_for == c) ..., from position i on.
ResetTransients(w, c, i) ==
    IF i > Len(w.clients) THEN w
    ELSE IF w.cl[w.clients[i]].transient_for = c
    THEN ResetTransients([w EXCEPT !.cl[w.clients[i]].transient_for = NULL], c, i + 1)
    ELSE ResetTransients(w, c, i + 1)

\* client_unmanage from "remove client from global list" on.
UnmanageRemove(w, c) ==
    LET w5 == stack_client_remove([w EXCEPT !.clients = SeqRemove(@, c)], c)
        w6 == [w5 EXCEPT !.cl[c].tags = {}]
        w7 == Emit(w6, "hook", "unmanage", c)
        w8 == Emit(w7, "hook", "clients", NULL)
        w9 == Emit(w8, "xcb", "state_withdrawn", c)
        w10 == [w9 EXCEPT !.cl[c].titlebar = FALSE]
        w11 == ewmh_update_net_client_list(w10, c)
    IN [w11 EXCEPT !.cl[c].invalid = TRUE]

\* client_unmanage without the prev_client_focus test.
client_unmanage_keepsprev(w, c) ==
    UnmanageRemove(UnfocusIfFocused(ResetTransients(w, c, 1), c), c)

client_unmanage(w, c) ==
    UnmanageRemove(UnfocusIfFocused(ForgetPrevFocus(ResetTransients(w, c, 1), c), c), c)

\* luaA_client_tags with a table: untag from every tag, then tag with the given ones.
client_settags(w, c, tags) == [w EXCEPT !.cl[c].tags = tags]

\* A tag of the screen is selected or deselected: the selected tags become tags.
tag_view(w, screen, tags) == [w EXCEPT !.selected[screen] = tags]

\* ------------------------------------------------------ the max layout

\* IS_TILED(c, screen): the predicate belongs to the layout's caller; tiled is
\* the set of clients it holds of during the pass.
IS_TILED(tiled, c) == c \in tiled

\* focus_get_current_client(screen)
focus_get_current_client(w, screen) == w.focus[screen]

\* The call client_resize(c, area, false) of the loop, recorded with its
\* arguments before it is made.
LayoutResize(w, c, area) ==
    client_resize([w EXCEPT !.log = Append(@, [kind |-> "call", tag |-> "resize",
                                               c |-> c, geometry |-> area,
                                               hints |-> FALSE])],
                  c, area, FALSE).w

\* area.width -= 2 * c->border; area.height -= 2 * c->border;
LayoutShrink(area, border) ==
    [area EXCEPT !.width = U16(@ - 2 * border), !.height = U16(@ - 2 * border)]

\* LayoutGrow without the two "+=" that follow the call.
LayoutGrow_keeps(area, border) == area

\* area.width += 2 * c->border; area.height += 2 * c->border;
LayoutGrow(area, border) ==
    [area EXCEPT !.width = U16(@ + 2 * border), !.height = U16(@ + 2 * border)]

RECURSIVE LayoutLoop(_, _, _, _)
\* for(c = globalconf.clients; c; c = c->next) if(IS_TILED(c, screen)) ..., from
\* the client at position i on.
LayoutLoop(w, tiled, area, i) ==
    IF i > Len(w.clients) THEN w
    ELSE IF IS_TILED(tiled, w.clients[i])
    THEN LayoutLoop(LayoutResize(w, w.clients[i],
                                 LayoutShrink(area, w.cl[w.clients[i]].border)),
                    tiled,
                    LayoutGrow(LayoutShrink(area, w.cl[w.clients[i]].border),
                               w.cl[w.clients[i]].border),
                    i + 1)
    ELSE LayoutLoop(w, tiled, area, i + 1)

\* if((focus = focus_get_current_client(screen)) && IS_TILED(focus, screen)) ...
LayoutRaise(w, tiled, focused) ==
    IF focused # NULL /\ IS_TILED(tiled, focused) THEN client_raise(w, focused) ELSE w

layout_max(w, screen, tiled) ==
    LayoutRaise(LayoutLoop(w, tiled, screen_area_get(screen, TRUE), 1), tiled,
                focus_get_current_client(w, screen))

\* ------------------------------------------------ the Lua entry points

\* luaA_client_checkudata: TRUE when it returns the client, FALSE when it
\* raises the error "client is invalid".
luaA_client_checkudata(w, c) == ~w.cl[c].invalid

\* client_lower: to the bottom of the stack.
client_lower(w, c) == client_stack([w EXCEPT !.stack = <<c>> \o SeqRemove(@, c)])

\* luaA_client_newindex after its luaA_client_checkudata: the setter of the key.
luaA_client_newindex(w, c, key, value) ==
    CASE key = "hide" -> client_sethidden(w, c, value)
      [] key = "minimized" -> client_setminimized(w, c, value)
      [] key = "fullscreen" -> client_setfullscreen(w, c, value)
      [] key = "maximized_horizontal" -> client_setmaxhoriz(w, c, value)
      [] key = "maximized_vertical" -> client_setmaxvert(w, c, value)
      [] key = "sticky" -> client_setsticky(w, c, value)
      [] key = "border_width" -> client_setborder(w, c, value)
      [] key = "ontop" -> client_setontop(w, c, value)
      [] key = "above" -> client_setabove(w, c, value)
      [] key = "below" -> client_setbelow(w, c, value)
      [] key = "urgent" -> client_seturgent(w, c, value)
      [] key = "size_hints_honor" ->
             hook_property([w EXCEPT !.cl[c].size_hints_honor = value],
                           c, "size_hints_honor")
      [] key = "skip_taskbar" ->
             hook_property([w EXCEPT !.cl[c].skiptb = value], c, "skip_taskbar")

\* luaA_client_geometry with a table: the resize it asks for.
luaA_client_geometry(w, c, geometry) ==
    client_resize(w, c, geometry, w.cl[c].size_hints_honor).w

\* The body of the unfocus hook: Lua code that is handed the client and, when
\* unmanages holds, calls its unmanage method (luaA_client_unmanage).
UnfocusHookBody(w, c, unmanages) ==
    IF unmanages /\ luaA_client_checkudata(w, c) THEN client_unmanage(w, c) ELSE w

\* xcb_unmap_window, xcb_map_window of luaA_client_redraw.
Redrawn(w, c) == Emit(Emit(w, "xcb", "unmap_window", c), "xcb", "map_window", c)

\* luaA_client_redraw after its luaA_client_checkudata.
luaA_client_redraw(w, c, unmanages) ==
    IF w.screen_focus = NULL THEN [w EXCEPT !.fault = TRUE]
    ELSE IF w.focus[w.screen_focus] = c
    THEN client_focus(UnfocusHookBody(client_unfocus(Redrawn(w, c), c), c, unmanages), c)
    ELSE Redrawn(w, c)

\* The body of a property hook: Lua code that is handed the client and, when
\* the hook has fired and unmanages holds, calls its unmanage method.
PropertyHookBody(w, c, fired, unmanages) ==
    IF fired /\ unmanages /\ luaA_client_checkudata(w, c)
    THEN client_unmanage(w, c) ELSE w

\* c->geometries.fullscreen = c->geometry; c->border_fs = c->border;
FullscreenSave(w, c) ==
    [w EXCEPT !.cl[c].geometries.fullscreen = w.cl[c].geometry,
              !.cl[c].border_fs = w.cl[c].border]

\* client_setfullscreen from client_resize on.
FullscreenResize(w, c) ==
    hook_property(
        ewmh_client_update_hints(
            client_stack(client_resize(w, c, screen_area_get(w.cl[c].screen, FALSE),
                                       FALSE).w),
            c),
        c, "fullscreen")

\* client_setfullscreen(c, true) on a client that is not fullscreen, with a
\* property hook installed that unmanages the client when it is called for
\* the property at ("none": the hook unmanages nothing).  Each of the three
\* hooks is the last statement of the setter that fires it, and fires when
\* the setter changes its field.
client_setfullscreen_hooked(w, c, at) ==
    LET w1 == PropertyHookBody(
                  UnsetMaxHoriz([w EXCEPT !.cl[c].isfullscreen = TRUE], c), c,
                  w.cl[c].ismaxhoriz, at = "maximized_horizontal")
        w2 == PropertyHookBody(UnsetAbove(UnsetBelow(UnsetMaxVert(w1, c), c), c), c,
                               w.cl[c].isabove, at = "above")
        w3 == PropertyHookBody(
                  client_setborder(FullscreenSave(UnsetOntop(w2, c), c), c, 0), c,
                  w.cl[c].border # 0, at = "border_width")
    IN FullscreenResize(w3, c)

\* The place of c in the registry, 0 when the loop ends without finding it.
RegistryRef(w, c) ==
    IF \E i \in 1..Len(w.clients) : w.clients[i] = c
    THEN CHOOSE i \in 1..Len(w.clients) : w.clients[i] = c
    ELSE 0

\* luaA_client_swap after its two luaA_client_checkudata.
luaA_client_swap(w, c, swap) ==
    IF c # swap
    THEN IF RegistryRef(w, c) = 0 \/ RegistryRef(w, swap) = 0
         THEN [w EXCEPT !.fault = TRUE]
         ELSE Emit([w EXCEPT !.clients[RegistryRef(w, c)] = swap,
                             !.clients[RegistryRef(w, swap)] = c],
                   "hook", "clients", NULL)
    ELSE w

\* ------------------------------------------------------------- actions

\* The world an operation starts from: the call-out records start empty.
Start == [World EXCEPT !.log = <<>>, !.dirs = <<>>]

Commit(w, op) ==
    /\ cl' = w.cl
    /\ clients' = w.clients
    /\ stack' = w.stack
    /\ dirty' = w.dirty
    /\ focus' = w.focus
    /\ prev' = w.prev
    /\ screen_focus' = w.screen_focus
    /\ selected' = w.selected
    /\ worder' = w.worder
    /\ dirs' = w.dirs
    /\ log' = w.log
    /\ fault' = w.fault
    /\ lastop' = op

\* err is the error the call raises in the Lua caller, "none" when it returns.
Op(name, c, arg) == [op |-> name, c |-> c, arg |-> arg, err |-> "none"]

\* The clients a Lua caller can name: luaA_client_checkudata refuses the others.
Valid == {c \in 1..Len(cl) : ~cl[c].invalid}

\* globalconf before any window is managed.
EmptyWorld ==
    [cl |-> <<>>, clients |-> <<>>, stack |-> <<>>, dirty |-> FALSE,
     focus |-> [s \in Screens |-> NULL], prev |-> [s \in Screens |-> NULL],
     screen_focus |-> 1, selected |-> [s \in Screens |-> TagIds],
     worder |-> [i \in 1..Len(wiboxes) |-> wiboxes[i].window],
     dirs |-> <<>>, log |-> <<>>, fault |-> FALSE]

InitFrom(w) ==
    /\ cl = w.cl
    /\ clients = w.clients
    /\ stack = w.stack
    /\ dirty = w.dirty
    /\ focus = w.focus
    /\ prev = w.prev
    /\ screen_focus = w.screen_focus
    /\ selected = w.selected
    /\ worder = w.worder
    /\ dirs = <<>>
    /\ log = <<>>
    /\ fault = w.fault
    /\ lastop = Op("init", NULL, FALSE)
    /\ ncalls = 0

Init == InitFrom(EmptyWorld)

\* The window exists, on top of the others, when the manage request arrives.
WindowCreated(w) == [w EXCEPT !.worder = Append(@, Len(w.cl) + 1)]

Manage(wgeom, phys_screen, env) ==
    /\ ~fault
    /\ Commit(client_manage(WindowCreated(Start), wgeom, phys_screen, FALSE, env),
              Op("manage", Len(cl) + 1, FALSE))

\* The operation records what the call finds: whether c has the focus of its
\* screen and which clients are transient for c.
Unmanage(c) ==
    /\ ~fault
    /\ Commit(client_unmanage(Start, c),
              Op("unmanage", c,
                 [focused |-> focus[cl[c].phys_screen] = c,
                  transients |-> {p \in Valid : cl[p].transient_for = c}]))

SetFullscreen(c, s) ==
    ~fault /\ Commit(client_setfullscreen(Start, c, s), Op("fullscreen", c, s))

SetMaxHoriz(c, s) ==
    ~fault /\ Commit(client_setmaxhoriz(Start, c, s), Op("maximized_horizontal", c, s))

SetMaxVert(c, s) ==
    ~fault /\ Commit(client_setmaxvert(Start, c, s), Op("maximized_vertical", c, s))

SetAbove(c, s) == ~fault /\ Commit(client_setabove(Start, c, s), Op("above", c, s))

SetBelow(c, s) == ~fault /\ Commit(client_setbelow(Start, c, s), Op("below", c, s))

SetOntop(c, s) == ~fault /\ Commit(client_setontop(Start, c, s), Op("ontop", c, s))

SetSticky(c, s) == ~fault /\ Commit(client_setsticky(Start, c, s), Op("sticky", c, s))

SetModal(c, s) == ~fault /\ Commit(client_setmodal(Start, c, s), Op("modal", c, s))

SetMinimized(c, s) ==
    ~fault /\ Commit(client_setminimized(Start, c, s), Op("minimized", c, s))

SetUrgent(c, s) == ~fault /\ Commit(client_seturgent(Start, c, s), Op("urgent", c, s))

SetHidden(c, s) == ~fault /\ Commit(client_sethidden(Start, c, s), Op("hide", c, s))

SetBorder(c, width) ==
    ~fault /\ Commit(client_setborder(Start, c, width), Op("border_width", c, width))

Focus(c) == ~fault /\ Commit(client_focus(Start, c), Op("focus", c, FALSE))

Ban(c) == ~fault /\ Commit(client_ban(Start, c), Op("ban", c, FALSE))

SetTags(c, tags) == ~fault /\ Commit(client_settags(Start, c, tags), Op("tags", c, tags))

Restack == ~fault /\ Commit(client_stack_refresh(Start), Op("restack", NULL, dirty))

DoSetFullscreen == \E c \in Valid, s \in BOOLEAN : SetFullscreen(c, s)
DoSetMaxHoriz == \E c \in Valid, s \in BOOLEAN : SetMaxHoriz(c, s)
DoSetMaxVert == \E c \in Valid, s \in BOOLEAN : SetMaxVert(c, s)
DoSetAbove == \E c \in Valid, s \in BOOLEAN : SetAbove(c, s)
DoSetBelow == \E c \in Valid, s \in BOOLEAN : SetBelow(c, s)
DoSetOntop == \E c \in Valid, s \in BOOLEAN : SetOntop(c, s)
DoSetSticky == \E c \in Valid, s \in BOOLEAN : SetSticky(c, s)
DoSetModal == \E c \in Valid, s \in BOOLEAN : SetModal(c, s)
DoSetMinimized == \E c \in Valid, s \in BOOLEAN : SetMinimized(c, s)
DoSetUrgent == \E c \in Valid, s \in BOOLEAN : SetUrgent(c, s)
DoSetHidden == \E c \in Valid, s \in BOOLEAN : SetHidden(c, s)
DoSetBorder == \E c \in Valid, width \in 0..MaxBorder : SetBorder(c, width)

\* -------------------------- the mode setters and the restack on one client

InitialGeometry == [x |-> 5, y |-> 5, width |-> 20, height |-> 12, border_width |-> 1]

Env(type, tc) ==
    [type |-> type, transient_for |-> tc, size_hints |-> IncHints, nofocus |-> FALSE]

ManageOne ==
    /\ Len(cl) = 0
    /\ \E type \in {"normal", "dock"} : Manage(InitialGeometry, 1, Env(type, NULL))

NextMode ==
    \/ ManageOne /\ UNCHANGED ncalls
    \/ DoSetFullscreen /\ UNCHANGED ncalls
    \/ DoSetMaxHoriz /\ UNCHANGED ncalls
    \/ DoSetMaxVert /\ UNCHANGED ncalls
    \/ DoSetAbove /\ UNCHANGED ncalls
    \/ DoSetBelow /\ UNCHANGED ncalls
    \/ DoSetOntop /\ UNCHANGED ncalls
    \/ Restack /\ UNCHANGED ncalls

SpecMode == Init /\ [][NextMode]_vars

\* ------------------- every setter on one client, at most MaxCalls calls

Tick == ncalls < MaxCalls /\ ncalls' = ncalls + 1

NextSet ==
    \/ ManageOne /\ UNCHANGED ncalls
    \/ Tick /\ DoSetFullscreen
    \/ Tick /\ DoSetMaxHoriz
    \/ Tick /\ DoSetMaxVert
    \/ Tick /\ DoSetAbove
    \/ Tick /\ DoSetBelow
    \/ Tick /\ DoSetOntop
    \/ Tick /\ DoSetSticky
    \/ Tick /\ DoSetModal
    \/ Tick /\ DoSetMinimized
    \/ Tick /\ DoSetUrgent
    \/ Tick /\ DoSetHidden
    \/ Tick /\ DoSetBorder

SpecSet == Init /\ [][NextSet]_vars

\* ------------------------- manage, tag, focus, ban and unmanage of clients

\* A window of a screen asks to be managed; its transient parent, if it names
\* one, is a managed client.
ManageLife ==
    /\ Len(cl) < MaxClients
    /\ \E phys_screen \in Screens, tc \in Valid \cup {NULL} :
          Manage(InitialGeometry, phys_screen, Env("normal", tc))

DoUnmanage == \E c \in Valid : Unmanage(c)

DoFocus == \E c \in Valid : Focus(c)

DoBan == \E c \in Valid : Ban(c)

DoSetTags == \E c \in Valid, tags \in SUBSET TagIds : SetTags(c, tags)

NextLife ==
    \/ ManageLife /\ UNCHANGED ncalls
    \/ DoSetTags /\ UNCHANGED ncalls
    \/ DoFocus /\ UNCHANGED ncalls
    \/ DoBan /\ UNCHANGED ncalls
    \/ DoUnmanage /\ UNCHANGED ncalls

SpecLife == Init /\ [][NextLife]_vars

\* ---------------------------------------- the layer of one client record

\* Every combination of the four flags, the transient parent and the type.
InitClassify ==
    \E ontop \in BOOLEAN, fullscreen \in BOOLEAN, above \in BOOLEAN, below \in BOOLEAN,
       tc \in {NULL, 2}, type \in WindowTypes :
        InitFrom([EmptyWorld EXCEPT
                    !.cl = << [client_new EXCEPT !.win = 1, !.screen = 1,
                                 !.phys_screen = 1, !.isontop = ontop,
                                 !.isfullscreen = fullscreen, !.isabove = above,
                                 !.isbelow = below, !.transient_for = tc,
                                 !.type = type],
                              [client_new EXCEPT !.win = 2, !.screen = 1,
                                 !.phys_screen = 1] >>,
                    !.clients = <<1, 2>>,
                    !.stack = <<1, 2>>])

Classify ==
    /\ lastop.op = "init"
    /\ \E c \in 1..Len(cl) :
          lastop' = Op("classify", c, client_layer_translator(cl[c]))
    /\ UNCHANGED <<cl, clients, stack, dirty, focus, prev, screen_focus, selected,
                   worder, dirs, log, fault, ncalls>>

SpecClassify == InitClassify /\ [][Classify]_vars

\* ------------------------------------ the restack of stacking configurations

Modes == {"none", "above", "below", "ontop", "fullscreen"}

\* The setter call that puts client c in the mode.
ApplyMode(w, c, mode) ==
    CASE mode = "none" -> w
      [] mode = "above" -> client_setabove(w, c, TRUE)
      [] mode = "below" -> client_setbelow(w, c, TRUE)
      [] mode = "ontop" -> client_setontop(w, c, TRUE)
      [] mode = "fullscreen" -> client_setfullscreen(w, c, TRUE)

RECURSIVE ManageAll(_, _, _, _, _)
\* Clients i..Len(types) managed in turn, each put in its mode once managed.
ManageAll(w, i, types, parents, modes) ==
    IF i > Len(types) THEN w
    ELSE ManageAll(ApplyMode(client_manage(WindowCreated(w), InitialGeometry, 1, FALSE,
                                           Env(types[i], parents[i])),
                             i, modes[i]),
                   i + 1, types, parents, modes)

RECURSIVE RaiseAll(_, _, _)
\* client_raise on order[i], order[i+1], ...: the stack ends up as order.
RaiseAll(w, order, i) ==
    IF i > Len(order) THEN w
    ELSE RaiseAll(client_raise(w, order[i]), order, i + 1)

\* Up to MaxStack clients, each a normal or desktop window in one of the modes,
\* each transient for nothing or for a client managed before it, raised in any order.
InitStack ==
    \E n \in 1..MaxStack :
      \E types \in [1..n -> {"normal", "desktop"}],
         parents \in {f \in [1..n -> 0..n] : \A i \in 1..n : f[i] < i},
         modes \in [1..n -> Modes],
         order \in {f \in [1..n -> 1..n] : \A i, j \in 1..n : f[i] = f[j] => i = j} :
           InitFrom(RaiseAll(ManageAll(EmptyWorld, 1, types, parents, modes), order, 1))

NextStack == Restack /\ UNCHANGED ncalls

SpecStack == InitStack /\ [][NextStack]_vars

\* --------------------------------- calls through the Lua entry points

\* A call of a client method or of a client field assignment from Lua: the
\* entry point checks the client first and raises an error for an invalid one,
\* otherwise the call returns the world w.
Lua(name, c, arg, w) ==
    /\ ~fault
    /\ IF luaA_client_checkudata(Start, c)
       THEN Commit(w, Op(name, c, arg))
       ELSE Commit(Start, [Op(name, c, arg) EXCEPT !.err = "InvalidClient"])

\* Every client a Lua caller may still hold, unmanaged ones included.
Known == 1..Len(cl)

LuaUnmanage(c) ==
    Lua("unmanage", c,
        [focused |-> focus[cl[c].phys_screen] = c,
         transients |-> {p \in Valid : cl[p].transient_for = c}],
        client_unmanage(Start, c))

LuaRaise(c) == Lua("raise", c, FALSE, client_raise(Start, c))

LuaLower(c) == Lua("lower", c, FALSE, client_lower(Start, c))

\* Both clients are checked, the first one first.
LuaSwap(c, swap) ==
    /\ ~fault
    /\ IF luaA_client_checkudata(Start, c) /\ luaA_client_checkudata(Start, swap)
       THEN Commit(luaA_client_swap(Start, c, swap), Op("swap", c, swap))
       ELSE Commit(Start, [Op("swap", c, swap) EXCEPT !.err = "InvalidClient"])

LuaSet(c, key, value) == Lua(key, c, value, luaA_client_newindex(Start, c, key, value))

LuaFocus(c) == Lua("focus", c, FALSE, client_focus(Start, c))

LuaGeometry(c, geometry) ==
    Lua("geometry", c, geometry, luaA_client_geometry(Start, c, geometry))

LuaTags(c, tags) == Lua("tags", c, tags, client_settags(Start, c, tags))

LuaRedraw(c, unmanages) ==
    Lua("redraw", c, unmanages, luaA_client_redraw(Start, c, unmanages))

\* ------------------------- the registry and the stack of MaxClients clients

ManageBordered ==
    /\ Len(cl) < MaxClients
    /\ \E b \in 0..MaxBorder :
          Manage([InitialGeometry EXCEPT !.border_width = b], 1, Env("normal", NULL))

DoLuaUnmanage == \E c \in Known : LuaUnmanage(c)

DoLuaRaise == \E c \in Known : LuaRaise(c)

DoLuaLower == \E c \in Known : LuaLower(c)

DoLuaSwap == \E c \in Known, swap \in Known : LuaSwap(c, swap)

NextRegistry ==
    \/ ManageBordered /\ UNCHANGED ncalls
    \/ DoLuaUnmanage /\ UNCHANGED ncalls
    \/ DoLuaRaise /\ UNCHANGED ncalls
    \/ DoLuaLower /\ UNCHANGED ncalls
    \/ DoLuaSwap /\ UNCHANGED ncalls

SpecRegistry == Init /\ [][NextRegistry]_vars

\* ------------------------------ the focus bookkeeping of two screens

\* Clients ever managed in one run of this specification.
MaxFocusClients == 2

ManageFocus ==
    /\ Len(cl) < MaxFocusClients
    /\ \E phys_screen \in Screens : Manage(InitialGeometry, phys_screen, Env("normal", NULL))

\* client_focus(NULL).  With an empty registry the call reads c->screen through
\* the null pointer: the read traps, or it does not and the call returns.
FocusNone ==
    /\ ~fault
    /\ IF Len(clients) # 0
       THEN Commit(client_focus(Start, NULL), Op("focus", NULL, FALSE))
       ELSE \E traps \in BOOLEAN :
               Commit(IF traps THEN client_focus(Start, NULL) ELSE Start,
                      Op("focus", NULL, traps))

Unfocus(c) == ~fault /\ Commit(client_unfocus(Start, c), Op("unfocus", c, FALSE))

Unban(c) == ~fault /\ Commit(client_unban(Start, c), Op("unban", c, FALSE))

Select(screen, tags) ==
    ~fault /\ Commit(tag_view(Start, screen, tags), Op("select", NULL, tags))

NextFocus ==
    \/ ManageFocus /\ UNCHANGED ncalls
    \/ (\E c \in Valid, tags \in SUBSET TagIds : SetTags(c, tags)) /\ UNCHANGED ncalls
    \/ (\E screen \in Screens, tags \in SUBSET TagIds : Select(screen, tags))
          /\ UNCHANGED ncalls
    \/ (\E c \in Valid, s \in BOOLEAN : SetSticky(c, s)) /\ UNCHANGED ncalls
    \/ (\E c \in Valid : Focus(c)) /\ UNCHANGED ncalls
    \/ FocusNone /\ UNCHANGED ncalls
    \/ (\E c \in Valid : Unfocus(c)) /\ UNCHANGED ncalls
    \/ (\E c \in Valid : Ban(c)) /\ UNCHANGED ncalls
    \/ (\E c \in Valid : Unban(c)) /\ UNCHANGED ncalls
    \/ (\E c \in Valid : Unmanage(c)) /\ UNCHANGED ncalls

SpecFocus == Init /\ [][NextFocus]_vars

\* ------------------- a client gains the focus, whatever its flags are

NextGain ==
    \/ ManageFocus /\ UNCHANGED ncalls
    \/ (\E c \in Valid, tags \in SUBSET TagIds : SetTags(c, tags)) /\ UNCHANGED ncalls
    \/ (\E c \in Valid, s \in BOOLEAN : SetMinimized(c, s)) /\ UNCHANGED ncalls
    \/ (\E c \in Valid, s \in BOOLEAN : SetHidden(c, s)) /\ UNCHANGED ncalls
    \/ (\E c \in Valid, s \in BOOLEAN : SetUrgent(c, s)) /\ UNCHANGED ncalls
    \/ (\E c \in Valid : Focus(c)) /\ UNCHANGED ncalls

SpecGain == Init /\ [][NextGain]_vars

\* -------------------- every Lua entry point on valid and invalid clients

\* Clients ever managed in one run of this specification.
MaxLuaClients == 2
\* Calls let in by luaA_client_checkudata in one run (ncalls counts them).
MaxLuaCalls == 3

\* The boolean keys of luaA_client_newindex.
LuaBoolKeys == {"hide", "minimized", "fullscreen", "maximized_horizontal",
                "maximized_vertical", "sticky", "ontop", "above", "below", "urgent"}

ManageLua ==
    /\ Len(cl) < MaxLuaClients
    /\ Manage(InitialGeometry, 1, Env("normal", NULL))

\* A call that is let in counts against the budget of calls; a refused one does not.
Counted(c) ==
    IF luaA_client_checkudata(World, c)
    THEN ncalls < MaxLuaCalls /\ ncalls' = ncalls + 1
    ELSE UNCHANGED ncalls

NextInvalid ==
    \/ ManageLua /\ UNCHANGED ncalls
    \/ \E c \in Known, key \in LuaBoolKeys, s \in BOOLEAN : Counted(c) /\ LuaSet(c, key, s)
    \/ \E c \in Known, width \in 0..MaxBorder :
          Counted(c) /\ LuaSet(c, "border_width", width)
    \/ \E c \in Known : Counted(c) /\ LuaFocus(c)
    \/ \E c \in Known : Counted(c) /\ LuaGeometry(c, Area(0, 0, 30, 20))
    \/ \E c \in Known, tags \in SUBSET TagIds : Counted(c) /\ LuaTags(c, tags)
    \/ \E c \in Known, unmanages \in BOOLEAN : Counted(c) /\ LuaRedraw(c, unmanages)
    \/ \E c \in Known : Counted(c) /\ LuaRaise(c)
    \/ \E c \in Known : Counted(c) /\ LuaLower(c)
    \/ \E c \in Known, swap \in Known : Counted(c) /\ LuaSwap(c, swap)
    \/ \E c \in Known : Counted(c) /\ LuaUnmanage(c)

SpecInvalid == Init /\ [][NextInvalid]_vars

\* ------- the two maximize axes of one hinted client, MaxCalls calls

\* min_aspect = max_aspect = 4/3.
AspectHints == [NoHints EXCEPT !.flags = {"P_ASPECT"},
                               !.min_aspect_num = 4, !.min_aspect_den = 3,
                               !.max_aspect_num = 4, !.max_aspect_den = 3]

\* The sizes a window asks to be managed with: X does not hold a window to its
\* own size hints.
MaxGeometries == {InitialGeometry, [InitialGeometry EXCEPT !.height = 13]}

ManageMax ==
    /\ Len(cl) = 0
    /\ \E wgeom \in MaxGeometries, size_hints \in {NoHints, IncHints, AspectHints} :
          Manage(wgeom, 1, [Env("normal", NULL) EXCEPT !.size_hints = size_hints])

NextMax ==
    \/ ManageMax /\ UNCHANGED ncalls
    \/ Tick /\ DoSetMaxHoriz
    \/ Tick /\ DoSetMaxVert
    \/ Tick /\ DoSetFullscreen

SpecMax == Init /\ [][NextMax]_vars

\* ------------------- the border of one client, any width asked for

\* The widths a caller asks for: luaL_checknumber lets a negative one through.
BorderWidths == -1..MaxBorder

\* The sizes a window asks to be managed with: the usual one, and the widest
\* one the protocol's 16-bit width allows, with no border.
BorderGeometries ==
    {InitialGeometry,
     [InitialGeometry EXCEPT !.width = 65535, !.border_width = 0]}

ManageBorder ==
    /\ Len(cl) = 0
    /\ \E wgeom \in BorderGeometries, type \in {"normal", "dock"} :
          Manage(wgeom, 1, Env(type, NULL))

NextBorder ==
    \/ ManageBorder /\ UNCHANGED ncalls
    \/ Tick /\ (\E c \in Valid, width \in BorderWidths : SetBorder(c, width))
    \/ Tick /\ DoSetFullscreen
    \/ Tick /\ DoSetMaxHoriz
    \/ Tick /\ DoSetMaxVert

SpecBorder == Init /\ [][NextBorder]_vars

\* ------------------------------------- resize requests on one client

\* Increments without a minimum or base size.
IncOnlyHints == [NoHints EXCEPT !.flags = {"P_RESIZE_INC"},
                                !.width_inc = 8, !.height_inc = 8]

\* The rectangles a caller asks for: left of, on and right of the screen,
\* narrower than two borders, and without height.
ResizeGeometries ==
    {Area(x, 5, width, height) : x \in {-30, 5, 70}, width \in {2, 7, 22},
                                 height \in {0, 14}}

ManageResize ==
    /\ Len(cl) = 0
    /\ \E size_hints \in {NoHints, IncHints, IncOnlyHints} :
          Manage(InitialGeometry, 1, [Env("normal", NULL) EXCEPT !.size_hints = size_hints])

\* client_resize as a layout calls it; the operation records the value returned.
Resize(c, geometry, hints) ==
    /\ ~fault
    /\ Commit(client_resize(Start, c, geometry, hints).w,
              Op("resize", c, [geometry |-> geometry, hints |-> hints,
                               changed |-> client_resize(Start, c, geometry, hints).changed]))

NextResize ==
    \/ ManageResize /\ UNCHANGED ncalls
    \/ (\E c \in Valid, geometry \in ResizeGeometries, hints \in BOOLEAN :
           Resize(c, geometry, hints)) /\ UNCHANGED ncalls
    \/ DoSetBorder /\ UNCHANGED ncalls

SpecResize == Init /\ [][NextResize]_vars

\* ------------------------------ client_geometry_hints on its inputs

HintFlags == {"P_SIZE", "P_MIN_SIZE", "P_MAX_SIZE", "P_RESIZE_INC", "BASE_SIZE",
              "P_ASPECT"}

\* The size hints a window may carry: every set of flags, with or without a
\* base, a minimum, a maximum and increments, and one of two aspect ranges
\* (4/3 to 4/3, 1/2 to 2/2).
HintSets ==
    {[flags |-> flags, base_width |-> base, base_height |-> base,
      min_width |-> min, min_height |-> min, max_width |-> max, max_height |-> max,
      width_inc |-> inc[1], height_inc |-> inc[2],
      min_aspect_num |-> aspect[1], min_aspect_den |-> aspect[2],
      max_aspect_num |-> aspect[3], max_aspect_den |-> aspect[2]] :
        flags \in SUBSET HintFlags, base \in {0, 10}, min \in {0, 2},
        max \in {0, 100}, inc \in {<<0, 0>>, <<10, 10>>, <<10, 0>>},
        aspect \in {<<4, 3, 4>>, <<1, 2, 2>>}}

\* The rectangles proposed to it.
HintProposals ==
    {Area(5, 7, width, height) : width \in {3, 70, 100, 107},
                                 height \in {3, 75, 94, 100}}

InitHints ==
    \E size_hints \in HintSets :
        InitFrom([EmptyWorld EXCEPT
                    !.cl = << [client_new EXCEPT !.win = 1, !.screen = 1,
                                 !.phys_screen = 1, !.size_hints = size_hints] >>,
                    !.clients = <<1>>,
                    !.stack = <<1>>])

Resolve ==
    /\ lastop.op = "init"
    /\ \E geometry \in HintProposals :
          lastop' = Op("resolve", 1,
                       [geometry |-> geometry,
                        result |-> client_geometry_hints(cl[1].size_hints, geometry)])
    /\ UNCHANGED <<cl, clients, stack, dirty, focus, prev, screen_focus, selected,
                   worder, dirs, log, fault, ncalls>>

SpecHints == InitHints /\ [][Resolve]_vars

\* ----------------------- the max layout on the clients of one screen

ManageLayout ==
    /\ Len(cl) < MaxFocusClients
    /\ \E b \in 0..MaxBorder :
          Manage([InitialGeometry EXCEPT !.border_width = b], 1, Env("normal", NULL))

\* One pass of the layout over a screen; the caller's predicate holds of any
\* set of clients of that screen.
Layout(screen, tiled) ==
    /\ ~fault
    /\ Commit(layout_max(Start, screen, tiled),
              Op("layout", NULL, [screen |-> screen, tiled |-> tiled]))

NextLayout ==
    \/ ManageLayout /\ UNCHANGED ncalls
    \/ (\E c \in Valid, tags \in SUBSET TagIds : SetTags(c, tags)) /\ UNCHANGED ncalls
    \/ (\E c \in Valid : Focus(c)) /\ UNCHANGED ncalls
    \/ (\E screen \in Screens :
           \E tiled \in SUBSET {c \in Valid : cl[c].screen = screen} :
              Layout(screen, tiled)) /\ UNCHANGED ncalls

SpecLayout == Init /\ [][NextLayout]_vars

\* --------------- set_fullscreen with a hook that unmanages the client

HookPoints == {"none", "maximized_horizontal", "above", "border_width"}

\* c.fullscreen = true from Lua on a client that is not fullscreen.
LuaFullscreenHooked(c, at) ==
    /\ ~cl[c].isfullscreen
    /\ Lua("fullscreen_hooked", c, at, client_setfullscreen_hooked(Start, c, at))

NextReentrant ==
    \/ ManageLua /\ UNCHANGED ncalls
    \/ (\E c \in Valid, s \in BOOLEAN : SetMaxHoriz(c, s)) /\ UNCHANGED ncalls
    \/ (\E c \in Valid, s \in BOOLEAN : SetAbove(c, s)) /\ UNCHANGED ncalls
    \/ (\E c \in Valid, s \in BOOLEAN : SetFullscreen(c, s)) /\ UNCHANGED ncalls
    \/ (\E c \in Valid, at \in HookPoints : LuaFullscreenHooked(c, at))
          /\ UNCHANGED ncalls

SpecReentrant == Init /\ [][NextReentrant]_vars

\* ------------------- transient parents of any shape, manage and restack

\* The clients of the stack placed by a layer sweep of client_stack_refresh from
\* which the recursion of client_stack_above never ends.
Unbounded(w) ==
    {c \in 1..Len(w.cl) :
        /\ \E i \in 1..Len(w.stack) : w.stack[i] = c
        /\ client_layer_translator(w.cl[c]) # LAYER_IGNORE
        /\ Recurses(w, c, Len(w.stack))}

\* A window is managed whose WM_TRANSIENT_FOR names nothing, a managed window
\* or the window itself (the client is in the registry when the property is
\* read).  A walk to the root that never ends leaves the program inside
\* client_manage: fault, with the world as the walk found it.
ManageTransient ==
    /\ ~fault
    /\ Len(cl) < MaxStack
    /\ \E tc \in 0..(Len(cl) + 1) :
          IF Walks(ManageHints(ManageNew(WindowCreated(Start), Len(cl) + 1,
                                         InitialGeometry, 1),
                               Len(cl) + 1, Env("normal", tc)),
                   Len(cl) + 1, Len(cl) + 1)
          THEN Commit([ManageHints(ManageNew(WindowCreated(Start), Len(cl) + 1,
                                             InitialGeometry, 1),
                                   Len(cl) + 1, Env("normal", tc))
                         EXCEPT !.fault = TRUE],
                      [Op("manage", Len(cl) + 1, FALSE) EXCEPT !.err = "endless"])
          ELSE Commit(client_manage(WindowCreated(Start), InitialGeometry, 1, FALSE,
                                    Env("normal", tc)),
                      Op("manage", Len(cl) + 1, FALSE))

\* The window of c changes its WM_TRANSIENT_FOR to the window of tc.
SetTransientFor(c, tc) ==
    /\ ~fault
    /\ Commit([Start EXCEPT !.cl[c].transient_for = tc], Op("transient_for", c, tc))

\* client_stack_refresh; a recursion that never ends leaves the program inside
\* it: fault.
RestackTransient ==
    /\ ~fault
    /\ IF dirty /\ Unbounded(Start) # {}
       THEN Commit([Start EXCEPT !.fault = TRUE],
                   [Op("restack", NULL, dirty) EXCEPT !.err = "endless"])
       ELSE Commit(client_stack_refresh(Start), Op("restack", NULL, dirty))

NextTransient ==
    \/ ManageTransient /\ UNCHANGED ncalls
    \/ (\E c \in Valid, tc \in Valid : SetTransientFor(c, tc)) /\ UNCHANGED ncalls
    \/ DoSetAbove /\ UNCHANGED ncalls
    \/ RestackTransient /\ UNCHANGED ncalls

SpecTransient == Init /\ [][NextTransient]_vars

\* ----------- the refresh flag under resizes, mode setters and restacks

\* The rectangles asked for: the one the client is managed with, and another.
DirtyGeometries == {Area(5, 5, 22, 14), Area(0, 0, 30, 20)}

NextDirty ==
    \/ ManageOne /\ UNCHANGED ncalls
    \/ Tick /\ (\E c \in Valid, geometry \in DirtyGeometries, hints \in BOOLEAN :
                   Resize(c, geometry, hints))
    \/ Tick /\ Restack
    \/ Tick /\ DoSetFullscreen
    \/ Tick /\ DoSetMaxHoriz
    \/ Tick /\ DoSetMaxVert
    \/ Tick /\ DoSetAbove
    \/ Tick /\ DoSetBelow
    \/ Tick /\ DoSetOntop

SpecDirty == Init /\ [][NextDirty]_vars

\* ------------------- resize requests at and beyond the screen's edges

\* The rectangles asked for: x left of the screen, inside it, on its right
\* limit and beyond it; y inside and on the bottom limit; a width that fits
\* and one wider than the screen.
EdgeGeometries ==
    {Area(x, y, width, 14) : x \in {-29, 5, ScreenW, ScreenW + 10},
                             y \in {5, ScreenH}, width \in {30, ScreenW + 20}}

NextEdge ==
    \/ ManageResize /\ UNCHANGED ncalls
    \/ (\E c \in Valid, geometry \in EdgeGeometries, hints \in BOOLEAN :
           Resize(c, geometry, hints)) /\ UNCHANGED ncalls

SpecEdge == Init /\ [][NextEdge]_vars

\* ------------- the properties assigned in luaA_client_newindex itself

\* The keys whose case of luaA_client_newindex writes the field and notifies.
NotifyKeys == {"hide", "size_hints_honor", "skip_taskbar"}

NextNotify ==
    \/ ManageLua /\ UNCHANGED ncalls
    \/ (\E c \in Valid, key \in NotifyKeys, s \in BOOLEAN : LuaSet(c, key, s))
          /\ UNCHANGED ncalls
    \/ (\E c \in Valid : LuaUnmanage(c)) /\ UNCHANGED ncalls

SpecNotify == Init /\ [][NextNotify]_vars

\* -------- the content rectangle under resizes, borders and the modes

\* The rectangles asked for: narrower than, as wide as and wider than two
\* borders, with and without height.
ThinGeometries ==
    {Area(5, 5, width, height) : width \in {2, 3, 4, 22}, height \in {0, 14}}

NextContent ==
    \/ ManageResize /\ UNCHANGED ncalls
    \/ Tick /\ (\E c \in Valid, geometry \in ThinGeometries, hints \in BOOLEAN :
                   Resize(c, geometry, hints))
    \/ Tick /\ DoSetBorder
    \/ Tick /\ DoSetFullscreen
    \/ Tick /\ DoSetMaxHoriz
    \/ Tick /\ DoSetMaxVert

SpecContent == Init /\ [][NextContent]_vars

\* -------------------------------------------------------- properties

\* The field a property-changed notification is tagged with.
Field(cr, tag) ==
    CASE tag = "fullscreen" -> cr.isfullscreen
      [] tag = "maximized_horizontal" -> cr.ismaxhoriz
      [] tag = "maximized_vertical" -> cr.ismaxvert
      [] tag = "above" -> cr.isabove
      [] tag = "below" -> cr.isbelow
      [] tag = "ontop" -> cr.isontop
      [] tag = "sticky" -> cr.issticky
      [] tag = "modal" -> cr.ismodal
      [] tag = "minimized" -> cr.isminimized
      [] tag = "urgent" -> cr.isurgent
      [] tag = "hide" -> cr.ishidden
      [] tag = "border_width" -> cr.border

LayerFlags == {"fullscreen", "above", "below", "ontop"}

MaxFlags == {"maximized_horizontal", "maximized_vertical"}

\* The hooks of the last operation that carry the tag, as positions of log.
Hooks(l, tag) == {i \in 1..Len(l) : l[i].kind = "hook" /\ l[i].tag = tag}

\* C1: after every completed call of a mode setter at most one of fullscreen,
\* above, below, ontop is set, and right after set_X(true) of one of them X is
\* set and the other three are not.
C1_LayerFlagsExclusive ==
    \A c \in 1..Len(cl) :
        /\ Cardinality({f \in LayerFlags : Field(cl[c], f)}) <= 1
        /\ (lastop.c = c /\ lastop.op \in LayerFlags /\ lastop.arg = TRUE)
               => \A f \in LayerFlags : Field(cl[c], f) <=> (f = lastop.op)

\* set_ontop(true) has just taken a fullscreen client out of fullscreen.
C1_Witness ==
    /\ lastop = Op("ontop", 1, TRUE)
    /\ Hooks(log, "fullscreen") # {}
    /\ cl[1].isontop

\* C2: after every completed setter call no client is both fullscreen and
\* maximized (horizontally or vertically); set_fullscreen(true) leaves both
\* maximized flags clear and set_maximized_*(true) leaves fullscreen clear.
C2_FullscreenXorMaximized ==
    \A c \in 1..Len(cl) :
        /\ ~(cl[c].isfullscreen /\ (cl[c].ismaxhoriz \/ cl[c].ismaxvert))
        /\ (lastop.c = c /\ lastop.op = "fullscreen" /\ lastop.arg = TRUE)
               => cl[c].isfullscreen /\ ~cl[c].ismaxhoriz /\ ~cl[c].ismaxvert
        /\ (lastop.c = c /\ lastop.op \in MaxFlags /\ lastop.arg = TRUE)
               => Field(cl[c], lastop.op) /\ ~cl[c].isfullscreen

\* set_fullscreen(true) has just cleared both maximized flags.
C2_Witness ==
    /\ lastop = Op("fullscreen", 1, TRUE)
    /\ Hooks(log, "maximized_horizontal") # {}
    /\ Hooks(log, "maximized_vertical") # {}
    /\ cl[1].isfullscreen

\* The windows a complete restack places: every stack member and every panel.
Placed == {cl[stack[i]].win : i \in 1..Len(stack)}
              \cup {wiboxes[i].window : i \in 1..Len(wiboxes)}

\* C8: a restack with the flag clear emits no directive and changes nothing; a
\* restack with the flag set clears it before the first placement and places
\* every window, so the next restack without a mutation emits nothing; a setter
\* that changes a mode flag sets the flag, and the flag stays set until a restack.
C8_RestackOnlyWhenDirty ==
    [][/\ (lastop'.op = "restack" /\ ~dirty)
             => /\ UNCHANGED <<cl, clients, stack, dirty, focus, prev,
                              screen_focus, selected, worder>>
                /\ dirs' = <<>> /\ log' = <<>>
       /\ (lastop'.op = "restack" /\ dirty)
             => /\ ~dirty'
                /\ \A i \in 1..Len(dirs') : ~dirs'[i].dirty
                /\ {dirs'[i].win : i \in 1..Len(dirs')} = Placed
       /\ (lastop'.op \in LayerFlags \cup MaxFlags
             /\ Field(cl[lastop'.c], lastop'.op) # Field(cl'[lastop'.c], lastop'.op))
             => dirty'
       /\ (lastop'.op # "restack" /\ dirty) => dirty'
      ]_vars

\* A second restack right after a restack that had work to do: nothing emitted.
C8_Witness ==
    /\ lastop = Op("restack", NULL, FALSE)
    /\ Len(stack) = 1
    /\ dirs = <<>>
    /\ ~dirty

\* The setters, by the tag of their notification.
BoolTags == LayerFlags \cup MaxFlags
                \cup {"sticky", "modal", "minimized", "urgent", "hide"}

SetterTags == BoolTags \cup {"border_width"}

\* C3: a setter called with the value its field already has changes no client
\* field, no registry, stack or focus state and not the dirty flag, and makes no
\* call-out; the same holds for a call that repeats the call before it.
C3_SetterIdempotent ==
    [][((lastop'.op \in SetterTags)
          /\ (\/ Field(cl[lastop'.c], lastop'.op) = lastop'.arg
              \/ lastop' = lastop))
         => /\ UNCHANGED <<cl, clients, stack, dirty, focus, prev,
                          screen_focus, selected, worder>>
            /\ log' = <<>>
            /\ dirs' = <<>>
      ]_vars

\* set_fullscreen(true) on a client that is fullscreen already, after other calls.
C3_Witness ==
    /\ lastop = Op("fullscreen", 1, TRUE)
    /\ cl[1].isfullscreen
    /\ log = <<>>
    /\ ncalls >= 2

\* C4: a setter call that changes its field X fires exactly one hook tagged X,
\* whose client already holds the new value; every boolean field the call
\* clears on the way fires exactly one hook of its own tag, before the hook of X.
C4_OneNotificationAfterChange ==
    [][((lastop'.op \in SetterTags)
          /\ Field(cl[lastop'.c], lastop'.op) # Field(cl'[lastop'.c], lastop'.op))
         => /\ Cardinality(Hooks(log', lastop'.op)) = 1
            /\ \A i \in Hooks(log', lastop'.op) :
                  /\ log'[i].c = lastop'.c
                  /\ Field(log'[i].snap, lastop'.op) = lastop'.arg
                  /\ Field(cl'[lastop'.c], lastop'.op) = lastop'.arg
            /\ \A g \in BoolTags \ {lastop'.op} :
                  (Field(cl[lastop'.c], g) /\ ~Field(cl'[lastop'.c], g))
                     => /\ Cardinality(Hooks(log', g)) = 1
                        /\ \A j \in Hooks(log', g), i \in Hooks(log', lastop'.op) :
                              j < i /\ ~Field(log'[j].snap, g)
      ]_vars

\* set_fullscreen(true) on an above, maximized client: three fields cleared first.
C4_Witness ==
    /\ lastop = Op("fullscreen", 1, TRUE)
    /\ cl[1].isfullscreen
    /\ \E i \in Hooks(log, "above"), j \in Hooks(log, "maximized_vertical"),
          k \in Hooks(log, "fullscreen") : i < k /\ j < k

\* C5: the layer of a client is one of the seven layers and is decided by the
\* first that applies of: ontop, fullscreen, above, below, has a transient
\* parent (IGNORE), is a desktop window (DESKTOP), none (NORMAL).
C5_ClassifyPriority ==
    lastop.op = "classify" =>
        LET c == cl[lastop.c]
            layer == lastop.arg
        IN /\ layer \in LAYER_IGNORE..LAYER_ONTOP
           /\ c.isontop => layer = LAYER_ONTOP
           /\ (~c.isontop /\ c.isfullscreen) => layer = LAYER_FULLSCREEN
           /\ (~c.isontop /\ ~c.isfullscreen /\ c.isabove) => layer = LAYER_ABOVE
           /\ (~c.isontop /\ ~c.isfullscreen /\ ~c.isabove /\ c.isbelow)
                 => layer = LAYER_BELOW
           /\ (~c.isontop /\ ~c.isfullscreen /\ ~c.isabove /\ ~c.isbelow)
                 => /\ c.transient_for # NULL => layer = LAYER_IGNORE
                    /\ (c.transient_for = NULL /\ c.type = "desktop")
                          => layer = LAYER_DESKTOP
                    /\ (c.transient_for = NULL /\ c.type # "desktop")
                          => layer = LAYER_NORMAL

\* A record with every flag set and a transient parent has been classified.
C5_Witness ==
    /\ lastop = Op("classify", 1, LAYER_ONTOP)
    /\ cl[1].isontop /\ cl[1].isfullscreen /\ cl[1].isabove /\ cl[1].isbelow
    /\ cl[1].transient_for = 2
    /\ cl[1].type = "desktop"

\* The state right after a restack pass that had the flag set.
AfterRestack == lastop.op = "restack" /\ lastop.arg = TRUE

StackSet == {stack[i] : i \in 1..Len(stack)}

StackIndex(c) == CHOOSE i \in 1..Len(stack) : stack[i] = c

\* The place of a window in the resulting order, bottom first.
Pos(win) == CHOOSE i \in 1..Len(worder) : worder[i] = win

\* The layers in the order they are stacked, bottom first.
LayerOrder == <<LAYER_DESKTOP, LAYER_BELOW, LAYER_NORMAL, LAYER_ABOVE,
                LAYER_FULLSCREEN, LAYER_ONTOP>>

Rank(c) == CHOOSE i \in 1..Len(LayerOrder) :
               LayerOrder[i] = client_layer_translator(cl[c])

\* C6: after a restack pass two stack members without a transient parent are
\* ordered by layer (desktop, below, normal, above, fullscreen, ontop) and, in
\* the same layer, as in the stack sequence; a non-topmost panel is above every
\* desktop-layer client and below every below-layer client; a topmost panel is
\* above every ontop-layer client.
C6_OrderByLayerThenStack ==
    AfterRestack =>
        /\ \A a \in StackSet, b \in StackSet :
              (a # b /\ cl[a].transient_for = NULL /\ cl[b].transient_for = NULL)
                 => (Pos(cl[a].win) < Pos(cl[b].win)
                        <=> \/ Rank(a) < Rank(b)
                            \/ Rank(a) = Rank(b) /\ StackIndex(a) < StackIndex(b))
        /\ \A c \in StackSet, i \in 1..Len(wiboxes) :
              /\ (~wiboxes[i].ontop /\ client_layer_translator(cl[c]) = LAYER_DESKTOP)
                    => Pos(cl[c].win) < Pos(wiboxes[i].window)
              /\ (~wiboxes[i].ontop /\ client_layer_translator(cl[c]) = LAYER_BELOW)
                    => Pos(wiboxes[i].window) < Pos(cl[c].win)
              /\ (wiboxes[i].ontop /\ client_layer_translator(cl[c]) = LAYER_ONTOP)
                    => Pos(cl[c].win) < Pos(wiboxes[i].window)

\* An ontop client first in the stack, then a desktop window, then a below client.
C6_Witness ==
    /\ AfterRestack
    /\ stack = <<1, 2, 3>>
    /\ cl[1].isontop /\ cl[2].type = "desktop" /\ cl[3].isbelow
    /\ \A c \in 1..3 : cl[c].transient_for = NULL
    /\ worder = <<2, 101, 3, 1, 102>>

RECURSIVE LeadsTo(_, _)
\* The transient_for chain of c leads to p (or c is p).
LeadsTo(c, p) ==
    IF c = p THEN TRUE
    ELSE IF cl[c].transient_for = NULL THEN FALSE
    ELSE LeadsTo(cl[c].transient_for, p)

\* p and the stack members whose chain leads to p, as places of the order.
BlockPos(p) == {Pos(cl[c].win) : c \in {d \in StackSet : LeadsTo(d, p)}}

\* C7: after a restack pass every client p and its transient descendants, whatever
\* their flags, fill a run of consecutive places of the order with p at the bottom.
C7_TransientsContiguous ==
    AfterRestack =>
        \A p \in StackSet :
            BlockPos(p) = Pos(cl[p].win)..(Pos(cl[p].win) + Cardinality(BlockPos(p)) - 1)

ClientSet == {clients[i] : i \in 1..Len(clients)}

NextWorld ==
    [cl |-> cl', clients |-> clients', stack |-> stack', dirty |-> dirty',
     focus |-> focus', prev |-> prev', screen_focus |-> screen_focus',
     selected |-> selected', worder |-> worder', dirs |-> <<>>,
     log |-> <<>>, fault |-> fault']

\* C10: unmanage(q) removes q alone from the registry and the stack; a client p
\* of the registry that is transient for q has transient_for none afterwards and
\* every other field as before, stays valid, in the registry and in the stack,
\* and takes the focus when it is focused while visible; no other client changes.
C10_UnmanageKeepsTransients ==
    [][(lastop'.op = "unmanage") =>
          /\ clients' = SeqRemove(clients, lastop'.c)
          /\ stack' = SeqRemove(stack, lastop'.c)
          /\ \A p \in (1..Len(cl)) \ {lastop'.c} :
                IF p \in ClientSet /\ cl[p].transient_for = lastop'.c
                THEN /\ cl'[p] = [cl[p] EXCEPT !.transient_for = NULL]
                     /\ ~cl'[p].invalid
                     /\ \E i \in 1..Len(clients') : clients'[i] = p
                     /\ \E i \in 1..Len(stack') : stack'[i] = p
                     /\ (client_maybevisible(NextWorld, p, cl'[p].screen)
                            /\ ~cl'[p].nofocus)
                           => client_focus(NextWorld, p).focus[cl'[p].phys_screen] = p
                ELSE cl'[p] = cl[p]
      ]_vars

\* A client with two transient children, one of them visible, has been unmanaged.
C10_Witness ==
    /\ lastop.op = "unmanage"
    /\ Cardinality(lastop.arg.transients) = 2
    /\ \A p \in lastop.arg.transients :
          cl[p].transient_for = NULL /\ ~cl[p].invalid /\ p \in ClientSet
    /\ \E p \in lastop.arg.transients : client_maybevisible(World, p, cl[p].screen)

\* The two sequences hold the same clients, each once.
SameMembers(cs, st) ==
    /\ {cs[i] : i \in 1..Len(cs)} = {st[i] : i \in 1..Len(st)}
    /\ \A i, j \in 1..Len(cs) : cs[i] = cs[j] => i = j
    /\ \A i, j \in 1..Len(st) : st[i] = st[j] => i = j

\* C11: in every state, and in the state every hook of the last operation was
\* called in, the registry and the stack hold the same clients, each once.
C11_RegistryMatchesStack ==
    /\ SameMembers(clients, stack)
    /\ \A i \in 1..Len(log) :
          log[i].kind = "hook" => SameMembers(log[i].clients, log[i].stack)

\* The operation of the step is invoked on a client that is invalid already.
OnInvalid ==
    \/ lastop'.c \in 1..Len(cl) /\ cl[lastop'.c].invalid
    \/ lastop'.op = "swap" /\ cl[lastop'.arg].invalid

\* C12: an operation invoked on an invalid client fails with InvalidClient and
\* changes no client field, registry, stack, focus state or dirty flag; no
\* operation makes a call-out for a client whose record is invalid, and no
\* focus pointer designates an invalid client.
C12_InvalidClientFailsFast ==
    [][/\ OnInvalid
            => /\ lastop'.err = "InvalidClient"
               /\ UNCHANGED <<cl, clients, stack, dirty, focus, prev, screen_focus>>
               /\ log' = <<>>
       /\ \A i \in 1..Len(log') : log'[i].c # NULL => ~log'[i].snap.invalid
       /\ \A s \in Screens :
             /\ focus'[s] # NULL => ~cl'[focus'[s]].invalid
             /\ prev'[s] # NULL => ~cl'[prev'[s]].invalid
      ]_vars

\* C13: the focused client of a screen, when there is one, is in the registry
\* and may be visible on that screen: it is on the screen and is sticky, a
\* desktop window or tagged with a selected tag.
C13_FocusedIsVisibleMember ==
    \A s \in Screens :
        focus[s] # NULL =>
            /\ focus[s] \in ClientSet
            /\ client_maybevisible(World, focus[s], s)

\* The hooks of the log that carry the tag for client c.
HooksOf(l, tag, c) == {i \in Hooks(l, tag) : l[i].c = c}

\* C14: focus(c) on a client that may be visible, does not refuse the focus and
\* is not focused ends with c not hidden, not minimized, not banned, not urgent,
\* focused and previously focused on its screen, after exactly one focus hook
\* for c; a different client that held the focus has lost it and had its
\* unfocus hook before the focus hook of c.  focus(c) on the focused client
\* changes no bookkeeping and fires no focus hook.
C14_FocusGain ==
    [][(/\ lastop'.op = "focus" /\ lastop'.c # NULL
        /\ client_maybevisible(World, lastop'.c, cl[lastop'.c].screen)
        /\ ~cl[lastop'.c].nofocus)
         => IF focus[cl[lastop'.c].phys_screen] # lastop'.c
            THEN /\ ~cl'[lastop'.c].ishidden
                 /\ ~cl'[lastop'.c].isminimized
                 /\ ~cl'[lastop'.c].isbanned
                 /\ ~cl'[lastop'.c].isurgent
                 /\ focus'[cl[lastop'.c].phys_screen] = lastop'.c
                 /\ prev'[cl[lastop'.c].phys_screen] = lastop'.c
                 /\ Cardinality(Hooks(log', "focus")) = 1
                 /\ Cardinality(HooksOf(log', "focus", lastop'.c)) = 1
                 /\ \A s \in Screens :
                       (focus[s] # NULL /\ focus[s] # lastop'.c)
                          => /\ focus'[s] # focus[s]
                             /\ Cardinality(HooksOf(log', "unfocus", focus[s])) = 1
                             /\ \A i \in HooksOf(log', "unfocus", focus[s]),
                                   j \in Hooks(log', "focus") : i < j
            ELSE /\ UNCHANGED <<cl, clients, stack, dirty, focus, prev, screen_focus>>
                 /\ Hooks(log', "focus") = {}
                 /\ Hooks(log', "unfocus") = {}
      ]_vars

\* A banned, minimized, urgent client has taken the focus from the client of
\* the other screen.
C14_Witness ==
    /\ lastop.op = "focus"
    /\ focus[cl[lastop.c].phys_screen] = lastop.c
    /\ \E i \in Hooks(log, "unfocus") :
          log[i].c # lastop.c /\ cl[log[i].c].phys_screen # cl[lastop.c].phys_screen
    /\ HooksOf(log, "minimized", lastop.c) # {}
    /\ HooksOf(log, "urgent", lastop.c) # {}
    /\ \E i \in 1..Len(log) : log[i].tag = "map_window" /\ log[i].c = lastop.c

\* The world of the state a step leads to, with its call-out records.
NextWorldLog == [NextWorld EXCEPT !.log = log', !.dirs = dirs']

\* C15: focus(none) with a non-empty registry does what focus(first member of
\* the registry) does: same state, same call-outs; with an empty registry it
\* changes nothing, makes no call-out and does not fault.
C15_FocusNoneIsFocusFirst ==
    [][(lastop'.op = "focus" /\ lastop'.c = NULL)
         => IF Len(clients) # 0
            THEN NextWorldLog = client_focus(Start, clients[1])
            ELSE /\ UNCHANGED <<cl, clients, stack, dirty, focus, prev, screen_focus>>
                 /\ log' = <<>>
                 /\ ~fault'
      ]_vars

\* The previously focused client of the screen of c.
PrevOf(c) == prev[cl[c].phys_screen]

\* C16: focus(c) on a client that may not be visible never gives c the focus; when the
\* previously focused client p of its screen exists and may be visible, p is
\* the focused client of the screen afterwards; otherwise the focused and the
\* previously focused client of every screen are as before.
C16_FocusFallsBack ==
    [][(/\ lastop'.op = "focus" /\ lastop'.c # NULL
        /\ ~client_maybevisible(World, lastop'.c, cl[lastop'.c].screen))
         => /\ \A s \in Screens : focus[s] # lastop'.c => focus'[s] # lastop'.c
            /\ IF PrevOf(lastop'.c) # NULL
                  /\ client_maybevisible(World, PrevOf(lastop'.c),
                                         cl[lastop'.c].screen)
               THEN focus'[cl[lastop'.c].phys_screen] = PrevOf(lastop'.c)
               ELSE focus' = focus /\ prev' = prev
      ]_vars

\* C17: unfocus(c) clears the focused client of the screen of c when that is
\* c and leaves it as it is when it is another client; the previously focused
\* client of every screen stays.
C17_UnfocusOnlyOwn ==
    [][(lastop'.op = "unfocus")
         => /\ focus'[cl[lastop'.c].phys_screen] =
                  IF focus[cl[lastop'.c].phys_screen] = lastop'.c THEN NULL
                  ELSE focus[cl[lastop'.c].phys_screen]
            /\ prev' = prev
      ]_vars

\* The X requests of the log that carry the tag.
Requests(l, tag) == {i \in 1..Len(l) : l[i].kind = "xcb" /\ l[i].tag = tag}

\* C18: ban(c) on a banned client and unban(c) on a client that is not banned
\* change nothing and send no request.  After ban(c), c is banned and is neither
\* the focused nor the previously focused client of its screen; the unfocus
\* bookkeeping and hook ran exactly when c was focused; one unmap was sent.
\* unban(c) sends one map, changes only the banned flag of c and no focus pointer.
C18_BanUnban ==
    [][/\ (lastop'.op = "ban")
            => /\ cl'[lastop'.c].isbanned
               /\ focus'[cl[lastop'.c].phys_screen] # lastop'.c
               /\ prev'[cl[lastop'.c].phys_screen] # lastop'.c
       /\ (lastop'.op = "ban")
            => IF cl[lastop'.c].isbanned
               THEN /\ UNCHANGED <<cl, clients, stack, dirty, focus, prev, screen_focus>>
                    /\ log' = <<>>
               ELSE /\ cl' = [cl EXCEPT ![lastop'.c].isbanned = TRUE]
                    /\ Cardinality(Requests(log', "unmap_window")) = 1
                    /\ (focus[cl[lastop'.c].phys_screen] = lastop'.c)
                          <=> HooksOf(log', "unfocus", lastop'.c) # {}
                    /\ (focus[cl[lastop'.c].phys_screen] = lastop'.c)
                          <=> \E i \in 1..Len(log') : log'[i].tag = "active_window"
                    /\ (focus[cl[lastop'.c].phys_screen] # lastop'.c) => focus' = focus
       /\ (lastop'.op = "unban")
            => /\ cl' = [cl EXCEPT ![lastop'.c].isbanned = FALSE]
               /\ UNCHANGED <<clients, stack, dirty, focus, prev, screen_focus>>
               /\ Cardinality(Requests(log', "map_window")) =
                     IF cl[lastop'.c].isbanned THEN 1 ELSE 0
               /\ Hooks(log', "focus") = {} /\ Hooks(log', "unfocus") = {}
      ]_vars

\* The focused client, which is also the previously focused one, has been banned.
C18_Witness ==
    /\ lastop.op = "ban"
    /\ cl[lastop.c].isbanned
    /\ HooksOf(log, "unfocus", lastop.c) # {}
    /\ focus[cl[lastop.c].phys_screen] = NULL
    /\ prev[cl[lastop.c].phys_screen] = NULL
    /\ Len(clients) = 2

\* C19: when client_manage returns, the new client is valid and banned, is the
\* last client of the registry and the top of the stack, is the focused client
\* of no screen and honors size hints; the stack is marked for a refresh; the
\* "clients" hook and the "manage" hook have each run exactly once, the latter
\* for the new client; and the records of the clients already there are as
\* they were.
C19_ManagePostconditions ==
    [][(lastop'.op = "manage")
          => /\ lastop'.c = Len(cl) + 1
             /\ Len(cl') = Len(cl) + 1
             /\ ~cl'[lastop'.c].invalid
             /\ cl'[lastop'.c].isbanned
             /\ clients' = Append(clients, lastop'.c)
             /\ Len(stack') = Len(stack) + 1
             /\ stack'[Len(stack')] = lastop'.c
             /\ \A s \in Screens : focus'[s] # lastop'.c
             /\ focus' = focus
             /\ cl'[lastop'.c].size_hints_honor
             /\ dirty'
             /\ Cardinality(Hooks(log', "clients")) = 1
             /\ Cardinality(Hooks(log', "manage")) = 1
             /\ Cardinality(HooksOf(log', "manage", lastop'.c)) = 1
             /\ SubSeq(cl', 1, Len(cl)) = cl]_vars

\* A window transient for a managed client has been managed while another
\* client had the focus.
C19_Witness ==
    /\ lastop.op = "manage"
    /\ Len(clients) >= 2
    /\ clients[Len(clients)] = lastop.c
    /\ cl[lastop.c].transient_for # NULL
    /\ \E s \in Screens : focus[s] # NULL

\* The geometry of c once client_setfullscreen(c, true) has removed any max state.
Unmaximized(c) == UnsetMaxVert(UnsetMaxHoriz(World, c), c).cl[c].geometry

\* C20: client_setfullscreen(c, true) on a client that is not fullscreen saves
\* the un-maximized geometry and the border, sets the border to 0 and gives the
\* client the whole screen area; the client_setfullscreen(c, false) that
\* follows it gives the client the saved geometry and the saved border width
\* again, whatever its type and its border width.
C20_FullscreenRoundTrip ==
    [][/\ (lastop'.op = "fullscreen" /\ lastop'.arg /\ ~cl[lastop'.c].isfullscreen)
            => /\ cl'[lastop'.c].geometries.fullscreen = Unmaximized(lastop'.c)
               /\ cl'[lastop'.c].border_fs = cl[lastop'.c].border
               /\ cl'[lastop'.c].border = 0
               /\ cl'[lastop'.c].geometry = screen_area_get(cl[lastop'.c].screen, FALSE)
       /\ (/\ lastop'.op = "fullscreen" /\ ~lastop'.arg
           /\ lastop = Op("fullscreen", lastop'.c, TRUE)
           /\ HooksOf(log, "fullscreen", lastop'.c) # {})
            => /\ cl'[lastop'.c].geometry = cl[lastop'.c].geometries.fullscreen
               /\ cl'[lastop'.c].border = cl[lastop'.c].border_fs]_vars

\* The same round trip for the clients whose type takes a border.
C20_Bordered ==
    [][/\ (lastop'.op = "fullscreen" /\ lastop'.arg /\ ~cl[lastop'.c].isfullscreen)
            => /\ cl'[lastop'.c].geometries.fullscreen = Unmaximized(lastop'.c)
               /\ cl'[lastop'.c].border_fs = cl[lastop'.c].border
               /\ cl'[lastop'.c].border = 0
               /\ cl'[lastop'.c].geometry = screen_area_get(cl[lastop'.c].screen, FALSE)
       /\ (/\ lastop'.op = "fullscreen" /\ ~lastop'.arg
           /\ lastop = Op("fullscreen", lastop'.c, TRUE)
           /\ HooksOf(log, "fullscreen", lastop'.c) # {})
            => /\ cl'[lastop'.c].geometry = cl[lastop'.c].geometries.fullscreen
               /\ cl[lastop'.c].type = "normal"
                    => cl'[lastop'.c].border = cl[lastop'.c].border_fs]_vars

\* The outer geometry of c after the four maximize calls in the given order.
MaxRoundTrip(c, h1, h2) ==
    IF h1 = h2
    THEN client_setmaxvert(client_setmaxhoriz(
             client_setmaxvert(client_setmaxhoriz(World, c, TRUE), c, TRUE),
             c, FALSE), c, FALSE).cl[c].geometry
    ELSE IF h1
    THEN client_setmaxhoriz(client_setmaxvert(
             client_setmaxvert(client_setmaxhoriz(World, c, TRUE), c, TRUE),
             c, FALSE), c, FALSE).cl[c].geometry
    ELSE client_setmaxvert(client_setmaxhoriz(
             client_setmaxhoriz(client_setmaxvert(World, c, TRUE), c, TRUE),
             c, FALSE), c, FALSE).cl[c].geometry

\* What C21 asks of one step and of the state it leads to.
MaxAxes(hinted) ==
    /\ (/\ lastop'.op = "maximized_horizontal" /\ lastop'.arg
        /\ ~cl[lastop'.c].ismaxhoriz /\ ~cl[lastop'.c].isfullscreen
        /\ cl[lastop'.c].size_hints \in hinted)
         => /\ cl'[lastop'.c].geometry.y = cl[lastop'.c].geometry.y
            /\ cl'[lastop'.c].geometry.height = cl[lastop'.c].geometry.height
            /\ cl'[lastop'.c].geometries.max.x = cl[lastop'.c].geometry.x
            /\ cl'[lastop'.c].geometries.max.width = cl[lastop'.c].geometry.width
    /\ (/\ lastop'.op = "maximized_horizontal" /\ ~lastop'.arg
        /\ cl[lastop'.c].ismaxhoriz /\ cl[lastop'.c].size_hints \in hinted)
         => /\ cl'[lastop'.c].geometry.x = cl[lastop'.c].geometries.max.x
            /\ cl'[lastop'.c].geometry.width = cl[lastop'.c].geometries.max.width
            /\ cl'[lastop'.c].geometry.y = cl[lastop'.c].geometry.y
            /\ cl'[lastop'.c].geometry.height = cl[lastop'.c].geometry.height
    /\ (/\ lastop'.op = "maximized_vertical" /\ lastop'.arg
        /\ ~cl[lastop'.c].ismaxvert /\ ~cl[lastop'.c].isfullscreen
        /\ cl[lastop'.c].size_hints \in hinted)
         => /\ cl'[lastop'.c].geometry.x = cl[lastop'.c].geometry.x
            /\ cl'[lastop'.c].geometry.width = cl[lastop'.c].geometry.width
            /\ cl'[lastop'.c].geometries.max.y = cl[lastop'.c].geometry.y
            /\ cl'[lastop'.c].geometries.max.height = cl[lastop'.c].geometry.height
    /\ (/\ lastop'.op = "maximized_vertical" /\ ~lastop'.arg
        /\ cl[lastop'.c].ismaxvert /\ cl[lastop'.c].size_hints \in hinted)
         => /\ cl'[lastop'.c].geometry.y = cl[lastop'.c].geometries.max.y
            /\ cl'[lastop'.c].geometry.height = cl[lastop'.c].geometries.max.height
            /\ cl'[lastop'.c].geometry.x = cl[lastop'.c].geometry.x
            /\ cl'[lastop'.c].geometry.width = cl[lastop'.c].geometry.width
    /\ \A c \in Valid :
           (/\ ~cl[c].ismaxhoriz /\ ~cl[c].ismaxvert /\ ~cl[c].isfullscreen
            /\ cl[c].size_hints \in hinted)
            => \A h1, h2 \in BOOLEAN : MaxRoundTrip(c, h1, h2) = cl[c].geometry

\* C21: maximizing one axis leaves the other axis of the outer geometry as
\* it is and saves the axis it changes; un-maximizing it restores the saved
\* values; and the four calls, in any order that maximizes each axis once
\* and un-maximizes it once, end with the outer geometry they started from.
C21_MaximizeAxesIndependent ==
    [][MaxAxes({NoHints, IncHints, AspectHints})]_vars

\* The same for the clients without size hints.
C21_Unhinted == [][MaxAxes({NoHints})]_vars

\* The clients client_setborder gives no border to.
Borderless(cr) == cr.type \in {"dock", "splash", "desktop"} \/ cr.isfullscreen

\* C22: client_setborder on a dock, splash, desktop or fullscreen client
\* changes nothing and fires no border_width hook, whatever the width asked
\* for, and the border width of such a client is 0 in every state.
C22_BorderRefused ==
    [][/\ (lastop'.op = "border_width" /\ Borderless(cl[lastop'.c]))
            => /\ cl' = cl
               /\ Hooks(log', "border_width") = {}
       /\ \A c \in Valid : Borderless(cl[c]) => cl[c].border = 0]_vars

\* What holds of them: a width above 0 is refused, and a fullscreen client
\* of a type that takes a border has none.
C22_PositiveRefused ==
    [][/\ (lastop'.op = "border_width" /\ Borderless(cl[lastop'.c])
                                       /\ lastop'.arg > 0)
            => /\ cl' = cl
               /\ Hooks(log', "border_width") = {}
       /\ \A c \in Valid : (cl[c].isfullscreen /\ cl[c].type = "normal")
                                => cl[c].border = 0]_vars

\* A world whose one client has the outer geometry (0,0,100,100) and border 2.
BorderExample ==
    [EmptyWorld EXCEPT
       !.cl = << [client_new EXCEPT !.win = 1, !.screen = 1, !.phys_screen = 1,
                                    !.border = 2,
                                    !.geometry = Area(0, 0, 100, 100),
                                    !.geometries.internal = Area(0, 0, 96, 96)] >>,
       !.clients = <<1>>, !.stack = <<1>>]

\* C23: a client_setborder call that is let through with a width that is not
\* negative and not the current one moves the outer width and height by twice
\* the difference, leaves x, y and the content rectangle alone and makes the
\* width the border; a negative width changes nothing; the border width is
\* never negative; and outer (0,0,100,100) with border 2 becomes
\* (0,0,106,106) with border 5, content 96x96.
C23_BorderResizesOuter ==
    [][/\ (/\ lastop'.op = "border_width"
           /\ lastop'.arg >= 0 /\ lastop'.arg # cl[lastop'.c].border
           /\ ~(lastop'.arg > 0 /\ Borderless(cl[lastop'.c])))
            => /\ cl'[lastop'.c].border = lastop'.arg
               /\ cl'[lastop'.c].geometry.width
                     = cl[lastop'.c].geometry.width
                         + 2 * (lastop'.arg - cl[lastop'.c].border)
               /\ cl'[lastop'.c].geometry.height
                     = cl[lastop'.c].geometry.height
                         + 2 * (lastop'.arg - cl[lastop'.c].border)
               /\ cl'[lastop'.c].geometry.x = cl[lastop'.c].geometry.x
               /\ cl'[lastop'.c].geometry.y = cl[lastop'.c].geometry.y
               /\ cl'[lastop'.c].geometries.internal = cl[lastop'.c].geometries.internal
               /\ Cardinality(HooksOf(log', "border_width", lastop'.c)) = 1
       /\ (lastop'.op = "border_width" /\ lastop'.arg < 0)
            => /\ UNCHANGED <<cl, clients, stack, dirty, focus, prev>>
               /\ log' = <<>>
       /\ \A c \in Valid : cl[c].border >= 0
       /\ client_setborder(BorderExample, 1, 5).cl[1].geometry = Area(0, 0, 106, 106)
       /\ client_setborder(BorderExample, 1, 5).cl[1].border = 5
       /\ client_setborder(BorderExample, 1, 5).cl[1].geometries.internal
             = Area(0, 0, 96, 96)]_vars

\* What holds of it: the same, for a call whose old and new outer sizes both
\* fit the 16 bits of a width (no subtraction below 0, no sum above 65535).
C23_InRange ==
    [][(/\ lastop'.op = "border_width"
        /\ lastop'.arg >= 0 /\ lastop'.arg # cl[lastop'.c].border
        /\ ~(lastop'.arg > 0 /\ Borderless(cl[lastop'.c]))
        /\ cl[lastop'.c].geometry.width >= 2 * cl[lastop'.c].border
        /\ cl[lastop'.c].geometry.height >= 2 * cl[lastop'.c].border
        /\ cl[lastop'.c].geometry.width
              + 2 * (lastop'.arg - cl[lastop'.c].border) <= 65535
        /\ cl[lastop'.c].geometry.height
              + 2 * (lastop'.arg - cl[lastop'.c].border) <= 65535)
         => /\ cl'[lastop'.c].border = lastop'.arg
            /\ cl'[lastop'.c].geometry.width
                  = cl[lastop'.c].geometry.width
                      + 2 * (lastop'.arg - cl[lastop'.c].border)
            /\ cl'[lastop'.c].geometry.height
                  = cl[lastop'.c].geometry.height
                      + 2 * (lastop'.arg - cl[lastop'.c].border)
            /\ cl'[lastop'.c].geometries.internal = cl[lastop'.c].geometries.internal]_vars

\* The border of a client that is maximized on one axis has just been changed.
C23_Witness ==
    /\ lastop.op = "border_width"
    /\ cl[lastop.c].border = lastop.arg
    /\ lastop.arg = 2
    /\ HooksOf(log, "border_width", lastop.c) # {}
    /\ cl[lastop.c].ismaxhoriz

\* C24: client_resize returns true exactly when the content rectangle stored
\* after the call is not the one stored before it.  When it returns true the
\* outer rectangle is the content rectangle with the border added, the screen
\* is the one at the new position and the geometry hook has run once; when it
\* returns false no field of any client has changed and no call-out was made.
\* The call that repeats the call before it returns false.
C24_ResizeReportsChange ==
    [][(lastop'.op = "resize")
         => /\ lastop'.arg.changed
                 <=> (cl'[lastop'.c].geometries.internal
                        # cl[lastop'.c].geometries.internal)
            /\ lastop'.arg.changed
                 => /\ cl'[lastop'.c].geometry
                         = titlebar_geometry_add(cl[lastop'.c].titlebar,
                                                 cl[lastop'.c].border,
                                                 cl'[lastop'.c].geometries.internal)
                    /\ cl'[lastop'.c].screen
                         = screen_getbycoord(cl[lastop'.c].screen,
                                             cl'[lastop'.c].geometries.internal.x,
                                             cl'[lastop'.c].geometries.internal.y)
                    /\ cl' = [cl EXCEPT ![lastop'.c].geometry = cl'[lastop'.c].geometry,
                                        ![lastop'.c].geometries.internal =
                                            cl'[lastop'.c].geometries.internal,
                                        ![lastop'.c].screen = cl'[lastop'.c].screen]
                    /\ Cardinality(HooksOf(log', "geometry", lastop'.c)) = 1
                    /\ Cardinality(Hooks(log', "geometry")) = 1
            /\ ~lastop'.arg.changed
                 => /\ UNCHANGED <<cl, clients, stack, dirty, focus, prev>>
                    /\ log' = <<>>
            /\ (/\ lastop.op = "resize" /\ lastop.c = lastop'.c
                /\ lastop.arg.geometry = lastop'.arg.geometry
                /\ lastop.arg.hints = lastop'.arg.hints)
                 => ~lastop'.arg.changed]_vars

\* A resize with hints has moved a client whose border is not 0.
C24_Witness ==
    /\ lastop.op = "resize"
    /\ lastop.arg.changed
    /\ lastop.arg.hints
    /\ cl[lastop.c].border > 0
    /\ cl[lastop.c].size_hints = IncHints

\* The content rectangle client_resize computes for the request the
\* operation in lastop made, from the client as it is now.
Computed(op) ==
    GeometryInternal(cl[op.c], display_area_get(cl[op.c].phys_screen),
                     op.arg.geometry, op.arg.hints)

\* C25: when the content rectangle client_resize computes has no width or no
\* height, the call returns false, no field of any client changes and no
\* call-out is made.
C25_UnplaceableRejected ==
    [][(/\ lastop'.op = "resize"
        /\ \/ Computed(lastop').width = 0
           \/ Computed(lastop').height = 0)
         => /\ ~lastop'.arg.changed
            /\ UNCHANGED <<cl, clients, stack, dirty, focus, prev>>
            /\ log' = <<>>]_vars

\* A request of seven pixels' width, which the increments of the client snap
\* to no width at all, was turned down.
C25_Witness ==
    /\ lastop.op = "resize"
    /\ lastop.arg.hints
    /\ lastop.arg.geometry.width = 7
    /\ lastop.arg.geometry.height = 14
    /\ cl[lastop.c].size_hints = IncOnlyHints
    /\ Computed(lastop).width = 0
    /\ ~lastop.arg.changed

\* The size client_geometry_hints has reached before the increments: the
\* proposal after the aspect, minimum and maximum steps.
Unsnapped(h, geometry) ==
    MaxStep(h, MinStep(HintsMin(h),
                       AspectStep(h, HintsBase(h).w, HintsBase(h).h, geometry)))

\* a - b, and 0 when b is the larger.
Monus(a, b) == IF a >= b THEN a - b ELSE 0

\* C26: with P_RESIZE_INC or BASE_SIZE set and both increments not 0, the
\* width returned is the width reached minus ((width -. base width) mod
\* width_inc), and the height likewise; the result lies between 0 and the size
\* reached, also when that size is below the base.  With neither flag, or an
\* increment of 0, the size reached is returned.  Base (0,0), increments
\* (10,10) and the proposal (107,94) give (100,90).
C26_IncrementSnapping ==
    /\ lastop.op = "resolve" =>
          LET h == cl[lastop.c].size_hints
              in == Unsnapped(h, lastop.arg.geometry)
              out == lastop.arg.result
          IN IF h.flags \cap {"P_RESIZE_INC", "BASE_SIZE"} # {}
                /\ h.width_inc # 0 /\ h.height_inc # 0
             THEN /\ out.width
                       = in.width - (Monus(in.width, HintsBase(h).w) % h.width_inc)
                  /\ out.height
                       = in.height - (Monus(in.height, HintsBase(h).h) % h.height_inc)
                  /\ out.width \in 0..in.width
                  /\ out.height \in 0..in.height
             ELSE /\ out.width = in.width
                  /\ out.height = in.height
    /\ client_geometry_hints([NoHints EXCEPT !.flags = {"P_RESIZE_INC"},
                                             !.width_inc = 10, !.height_inc = 10],
                             Area(0, 0, 107, 94)) = Area(0, 0, 100, 90)

\* A size below the base size has gone through the increments.
C26_Witness ==
    /\ lastop.op = "resolve"
    /\ "P_RESIZE_INC" \in cl[lastop.c].size_hints.flags
    /\ cl[lastop.c].size_hints.width_inc # 0
    /\ cl[lastop.c].size_hints.height_inc # 0
    /\ Unsnapped(cl[lastop.c].size_hints, lastop.arg.geometry).width
         < HintsBase(cl[lastop.c].size_hints).w
    /\ lastop.arg.result.width = 3

\* The resolve of the aspect example: only P_ASPECT set, 4/3 to 4/3, and the
\* proposal 100x100.
AspectExample ==
    /\ lastop.op = "resolve"
    /\ cl[lastop.c].size_hints.flags = {"P_ASPECT"}
    /\ cl[lastop.c].size_hints.min_aspect_num = 4
    /\ cl[lastop.c].size_hints.min_aspect_den = 3
    /\ cl[lastop.c].size_hints.max_aspect_num = 4
    /\ lastop.arg.geometry.width = 100
    /\ lastop.arg.geometry.height = 100

\* C27 as stated: the example resolves to a size of ratio about 4/3 that is
\* about (100, 75): the width within 5 of 100 and the height within 5 of 75.
C27_AspectExampleAsStated ==
    AspectExample => /\ lastop.arg.result.width \in 95..105
                     /\ lastop.arg.result.height \in 70..80

\* C27 as amended: the example resolves to (112, 84): the height is pulled
\* down, the width is pulled up, and width/height is 4/3.
C27_AspectExample ==
    AspectExample => /\ lastop.arg.result.width = 112
                     /\ lastop.arg.result.height = 84
                     /\ lastop.arg.result.height < lastop.arg.geometry.height
                     /\ 3 * lastop.arg.result.width = 4 * lastop.arg.result.height

\* The example has been resolved for hints that hold a base and a minimum
\* size without flagging them.
C27_Witness ==
    /\ AspectExample
    /\ cl[lastop.c].size_hints.base_width = 10
    /\ cl[lastop.c].size_hints.min_width = 2

\* The rectangle complies with the hints: not below the minimum, not above a
\* flagged maximum, at a whole number of increments from the base, and of an
\* aspect ratio, base taken off, within the range.
Compliant(h, geometry) ==
    /\ HintsMin(h).w # 0 => geometry.width >= HintsMin(h).w
    /\ HintsMin(h).h # 0 => geometry.height >= HintsMin(h).h
    /\ ("P_MAX_SIZE" \in h.flags /\ h.max_width # 0) => geometry.width <= h.max_width
    /\ ("P_MAX_SIZE" \in h.flags /\ h.max_height # 0) => geometry.height <= h.max_height
    /\ (h.flags \cap {"P_RESIZE_INC", "BASE_SIZE"} # {}
           /\ h.width_inc # 0 /\ h.height_inc # 0)
         => /\ (geometry.width - HintsBase(h).w) % h.width_inc = 0
            /\ (geometry.height - HintsBase(h).h) % h.height_inc = 0
    /\ ("P_ASPECT" \in h.flags /\ h.min_aspect_num > 0 /\ h.min_aspect_den > 0
           /\ h.max_aspect_num > 0
           /\ geometry.width - HintsBase(h).w > 0
           /\ geometry.height - HintsBase(h).h > 0)
         => /\ (geometry.width - HintsBase(h).w) * h.min_aspect_den
                  >= h.min_aspect_num * (geometry.height - HintsBase(h).h)
            /\ (geometry.width - HintsBase(h).w) * h.max_aspect_den
                  <= h.max_aspect_num * (geometry.height - HintsBase(h).h)

\* C28: client_geometry_hints returns a rectangle that complies with the
\* hints as it is, and returns the x and y of any rectangle it is given.
C28_ResolverFixedPoint ==
    lastop.op = "resolve" =>
        /\ Compliant(cl[lastop.c].size_hints, lastop.arg.geometry)
              => lastop.arg.result = lastop.arg.geometry
        /\ lastop.arg.result.x = lastop.arg.geometry.x
        /\ lastop.arg.result.y = lastop.arg.geometry.y

\* A rectangle that complies with hints in which every flag is set and every
\* constraint is active has been resolved.
C28_Witness ==
    /\ lastop.op = "resolve"
    /\ cl[lastop.c].size_hints.flags = HintFlags
    /\ cl[lastop.c].size_hints.width_inc # 0
    /\ cl[lastop.c].size_hints.height_inc # 0
    /\ cl[lastop.c].size_hints.max_width # 0
    /\ cl[lastop.c].size_hints.min_width # 0
    /\ lastop.arg.geometry.width - HintsBase(cl[lastop.c].size_hints).w > 0
    /\ lastop.arg.geometry.height - HintsBase(cl[lastop.c].size_hints).h > 0
    /\ Compliant(cl[lastop.c].size_hints, lastop.arg.geometry)

\* The calls of client_resize a layout pass has recorded.
Calls(l) == {i \in 1..Len(l) : l[i].kind = "call"}

\* C29: one pass of layout_max calls client_resize once, without hints, for
\* every tiled client and for no other, each time with the area of the screen
\* less twice the border of that client; it then raises the focused client of
\* the screen when that client is tiled and leaves the stack alone when not;
\* and no field of a client that is not tiled changes, and of a tiled one only
\* what client_resize writes.
C29_LayoutContract ==
    [][(lastop'.op = "layout")
         => /\ \A c \in lastop'.arg.tiled :
                  /\ Cardinality({i \in Calls(log') : log'[i].c = c}) = 1
                  /\ \A i \in Calls(log') :
                        log'[i].c = c
                          => /\ ~log'[i].hints
                             /\ log'[i].geometry
                                  = [screen_area_get(lastop'.arg.screen, TRUE) EXCEPT
                                       !.width = @ - 2 * cl[c].border,
                                       !.height = @ - 2 * cl[c].border]
            /\ \A i \in Calls(log') : log'[i].c \in lastop'.arg.tiled
            /\ IF focus[lastop'.arg.screen] \in lastop'.arg.tiled
               THEN /\ stack' = Append(SeqRemove(stack, focus[lastop'.arg.screen]),
                                       focus[lastop'.arg.screen])
                    /\ dirty'
               ELSE UNCHANGED <<stack, dirty>>
            /\ UNCHANGED <<clients, focus, prev>>
            /\ \A c \in 1..Len(cl) :
                  IF c \in lastop'.arg.tiled
                  THEN cl'[c] = [cl[c] EXCEPT !.geometry = cl'[c].geometry,
                                             !.geometries.internal =
                                                 cl'[c].geometries.internal,
                                             !.screen = cl'[c].screen]
                  ELSE cl'[c] = cl[c]]_vars

\* A pass has placed two tiled clients, the first with the wider border, and
\* raised the focused one, which was not on top.
C29_Witness ==
    /\ lastop.op = "layout"
    /\ lastop.arg.tiled = {1, 2}
    /\ cl[1].border = 2
    /\ cl[2].border = 1
    /\ focus[lastop.arg.screen] = 1
    /\ stack = <<2, 1>>
    /\ Hooks(log, "geometry") # {}

\* The unmanage hooks of the log for client c: where a hook body unmanaged it.
UnmanagedAt(l, c) == HooksOf(l, "unmanage", c)

\* C30: when a hook called inside client_setfullscreen(c, true) unmanages c,
\* the operation goes on without touching c: the record of c is the one the
\* unmanage left (as its unmanage hook saw it, marked invalid), no hook is
\* called for c afterwards, and c is not the focused or previously focused
\* client of any screen.
C30_ReentrancyTolerated ==
    [][(lastop'.op = "fullscreen_hooked")
         => \A k \in UnmanagedAt(log', lastop'.c) :
               /\ cl'[lastop'.c] = [log'[k].snap EXCEPT !.invalid = TRUE]
               /\ \A i \in (k + 1)..Len(log') :
                     ~(log'[i].kind = "hook" /\ log'[i].c = lastop'.c)
               /\ \A s \in Screens : focus'[s] # lastop'.c /\ prev'[s] # lastop'.c]_vars

\* The transient relation of the clients has no cycle: every walk to a root ends.
Acyclic ==
    \A c \in 1..Len(cl) : ~Walks(World, c, Len(cl))

\* The requests of a pass that place a client's window.
ClientPlacements(d) == {i \in 1..Len(d) : d[i].win \in 1..Len(cl)}

\* C31: whatever the transient parents are (a client transient for itself, a
\* cycle of two or more), the walk to the root made by manage ends, and a
\* restack pass ends having made no more placements than the stack has members
\* times the depth of the relation (no more than the members squared).
C31_TransientWalksTerminate ==
    [][(lastop'.op \in {"manage", "restack"})
         => /\ lastop'.err = "none"
            /\ ~fault'
            /\ Cardinality(ClientPlacements(dirs')) <= Len(stack') * Len(stack')]_vars

\* What holds of them: with no cycle among the transient parents both end,
\* within the bound.
C31_Acyclic ==
    [][(lastop'.op \in {"manage", "restack"} /\ Acyclic')
         => /\ lastop'.err = "none"
            /\ ~fault'
            /\ Cardinality(ClientPlacements(dirs')) <= Len(stack') * Len(stack')]_vars

\* A call of one of the six mode setters that changed the value of its flag.
ModeChanged ==
    /\ lastop'.op \in LayerFlags \cup MaxFlags
    /\ Field(cl[lastop'.c], lastop'.op) # Field(cl'[lastop'.c], lastop'.op)

\* C32: a call of set_fullscreen, set_maximized_horizontal,
\* set_maximized_vertical, set_above, set_below or set_ontop that changes the
\* value, and a resize that returns "changed", leave the refresh flag of the
\* stack set, so the restack that follows is not one that does nothing.
C32_MutationsMarkDirty ==
    [][/\ ModeChanged => dirty'
       /\ (lastop'.op = "resize" /\ lastop'.arg.changed) => dirty'
       /\ (lastop'.op = "restack" /\ lastop.op = "resize" /\ lastop.arg.changed)
            => dirs' # <<>>
       /\ (lastop'.op = "restack" /\ lastop.op \in LayerFlags \cup MaxFlags
                                  /\ Hooks(log, lastop.op) # {})
            => dirs' # <<>>]_vars

\* What holds of them: the six setters set the flag whenever they change the
\* value, and the restack after such a call places the windows; client_resize
\* leaves the flag as it finds it.
C32_SettersMarkDirty ==
    [][/\ ModeChanged => dirty'
       /\ (lastop'.op = "resize") => dirty' = dirty
       /\ (lastop'.op = "restack" /\ lastop.op \in LayerFlags \cup MaxFlags
                                  /\ Hooks(log, lastop.op) # {})
            => dirs' # <<>>]_vars

\* The properties whose change is pushed to the window's state hints.
SyncedTags == LayerFlags \cup MaxFlags \cup {"sticky", "modal", "minimized", "urgent"}

\* The calls of ewmh_client_update_hints(c) in the log, as positions of it.
HintSyncs(l, c) ==
    {i \in 1..Len(l) : l[i].kind = "ewmh" /\ l[i].tag = "hints" /\ l[i].c = c}

\* The last call was the setter of one of the tags and changed the value; the
\* hint synchronisation was called for the client with the new value in place.
SyncedAfter(tags) ==
    (/\ lastop'.op \in tags
     /\ Field(cl[lastop'.c], lastop'.op) # Field(cl'[lastop'.c], lastop'.op))
      => \E i \in HintSyncs(log', lastop'.c) :
            Field(log'[i].snap, lastop'.op) = lastop'.arg

\* C33: every call that changes fullscreen, maximized_horizontal,
\* maximized_vertical, above, below, ontop, sticky, modal, minimized or urgent
\* calls the hint synchronisation for the client at least once after the field
\* has its new value and before the setter returns.
C33_HintSyncAfterTransition == [][SyncedAfter(SyncedTags)]_vars

\* What holds of them: the same, but for ontop.
C33_AllButOntop == [][SyncedAfter(SyncedTags \ {"ontop"})]_vars

\* The aspect correction as the claim words it: below min_ratio and above
\* max_ratio alike, dy = (dx*min_ratio + dy) / (min_ratio^2 + 1) and
\* dx = dy*min_ratio, whenever the flag is set, the min numerator and
\* denominator are positive and dx, dy > 0 (quotients taken exactly, then cut).
StatedAspect(h, basew, baseh, geometry) ==
    IF /\ "P_ASPECT" \in h.flags
       /\ h.min_aspect_num > 0 /\ h.min_aspect_den > 0
       /\ geometry.height - baseh > 0 /\ geometry.width - basew > 0
       /\ \/ (geometry.width - basew) * h.min_aspect_den
               < h.min_aspect_num * (geometry.height - baseh)
          \/ (geometry.width - basew) * h.min_aspect_den
               > h.max_aspect_num * (geometry.height - baseh)
    THEN [geometry EXCEPT
            !.width =
                ((((geometry.width - basew) * h.min_aspect_num * h.min_aspect_den
                     + (geometry.height - baseh) * h.min_aspect_den * h.min_aspect_den)
                   * h.min_aspect_num)
                 \div ((h.min_aspect_num * h.min_aspect_num
                          + h.min_aspect_den * h.min_aspect_den) * h.min_aspect_den))
                + basew,
            !.height =
                (((geometry.width - basew) * h.min_aspect_num * h.min_aspect_den
                    + (geometry.height - baseh) * h.min_aspect_den * h.min_aspect_den)
                 \div (h.min_aspect_num * h.min_aspect_num
                         + h.min_aspect_den * h.min_aspect_den))
                + baseh]
    ELSE geometry

\* The resolver with the aspect step as stated.
StatedResolve(h, geometry) ==
    IncStep(h, HintsBase(h),
            MaxStep(h, MinStep(HintsMin(h),
                               StatedAspect(h, HintsBase(h).w, HintsBase(h).h, geometry))))

\* The proposal's ratio, base taken off, is above the maximum of the hints.
AboveMaxRatio(h, geometry) ==
    (geometry.width - HintsBase(h).w) * h.min_aspect_den
        > h.max_aspect_num * (geometry.height - HintsBase(h).h)

\* C34: the aspect correction recomputes dy = (dx*min_ratio + dy) /
\* (min_ratio^2 + 1) and dx = dy*min_ratio both below min_ratio and above
\* max_ratio (max_ratio taken over the min denominator), whenever the aspect
\* flag is set, the min numerator and denominator are positive and dx, dy > 0.
C34_AspectFormula ==
    lastop.op = "resolve"
      => lastop.arg.result = StatedResolve(cl[lastop.c].size_hints, lastop.arg.geometry)

\* What holds of it: the same for every proposal whose ratio is not above the
\* maximum, and for hints whose two ratios are equal.
C34_BelowMax ==
    (/\ lastop.op = "resolve"
     /\ \/ ~AboveMaxRatio(cl[lastop.c].size_hints, lastop.arg.geometry)
        \/ cl[lastop.c].size_hints.max_aspect_num
              = cl[lastop.c].size_hints.min_aspect_num)
      => lastop.arg.result = StatedResolve(cl[lastop.c].size_hints, lastop.arg.geometry)

\* C35: a resize that commits a rectangle leaves the outer rectangle not
\* entirely off the display area: x is below the area's width, y below its
\* height, and the right and bottom edges are not negative, whatever x and y
\* were asked for (the area's width or height included) and whatever the size.
C35_OffscreenProtection ==
    [][(lastop'.op = "resize" /\ lastop'.arg.changed)
         => /\ cl'[lastop'.c].geometry.x < display_area_get(1).width
            /\ cl'[lastop'.c].geometry.y < display_area_get(1).height
            /\ cl'[lastop'.c].geometry.x + cl'[lastop'.c].geometry.width >= 0
            /\ cl'[lastop'.c].geometry.y + cl'[lastop'.c].geometry.height >= 0]_vars

\* What holds of it: x and y are never above the area's width and height, and
\* without size hints the right and bottom edges are not negative.
C35_UpToTheLimit ==
    [][(lastop'.op = "resize" /\ lastop'.arg.changed)
         => /\ cl'[lastop'.c].geometry.x <= display_area_get(1).width
            /\ cl'[lastop'.c].geometry.y <= display_area_get(1).height
            /\ ~lastop'.arg.hints
                 => /\ cl'[lastop'.c].geometry.x + cl'[lastop'.c].geometry.width >= 0
                    /\ cl'[lastop'.c].geometry.y + cl'[lastop'.c].geometry.height >= 0]_vars

\* The field behind a key of NotifyKeys.
NotifyField(cr, key) ==
    CASE key = "hide" -> cr.ishidden
      [] key = "size_hints_honor" -> cr.size_hints_honor
      [] key = "skip_taskbar" -> cr.skiptb

\* An assignment of one of the keys: with the value the field has, nothing
\* changes and nothing is notified; with the other value the field takes it
\* and the property's hook is called once.
NotifiesOnChange(keys) ==
    (lastop'.op \in keys /\ lastop'.err = "none")
      => IF NotifyField(cl[lastop'.c], lastop'.op) = lastop'.arg
         THEN cl' = cl /\ log' = <<>>
         ELSE /\ NotifyField(cl'[lastop'.c], lastop'.op) = lastop'.arg
              /\ Cardinality(HooksOf(log', lastop'.op, lastop'.c)) = 1

\* C36: assigning size_hints_honor or skip_taskbar the value it has changes
\* nothing and fires no notification, as for hide, which notifies only when
\* the value changes.
C36_NoOpSuppressed == [][NotifiesOnChange(NotifyKeys)]_vars

\* What holds of them: hide does; the two others take the value and notify
\* once on every assignment.
C36_HideOnly ==
    [][/\ NotifiesOnChange({"hide"})
       /\ (lastop'.op \in {"size_hints_honor", "skip_taskbar"} /\ lastop'.err = "none")
            => /\ NotifyField(cl'[lastop'.c], lastop'.op) = lastop'.arg
               /\ Cardinality(HooksOf(log', lastop'.op, lastop'.c)) = 1]_vars

\* The exclusion rules on a client record: at most one of fullscreen, above,
\* below, ontop, and fullscreen with neither maximized flag.
Exclusive(cr) ==
    /\ Cardinality({f \in LayerFlags : Field(cr, f)}) <= 1
    /\ cr.isfullscreen => ~cr.ismaxhoriz /\ ~cr.ismaxvert

\* The hooks of the last operation that were handed a client.
ClientHooks(l) == {i \in 1..Len(l) : l[i].kind = "hook" /\ l[i].c # NULL}

\* C37: at every notification delivered from inside a setter, the nested ones
\* of set_fullscreen(true), set_above(true), set_below(true) and set_ontop(true)
\* included, the client as the callback sees it satisfies the exclusion rules.
C37_HooksSeeExclusion ==
    \A i \in ClientHooks(log) : Exclusive(log[i].snap)

\* What holds of them: the same for every operation but set_fullscreen(true),
\* and at the last notification of every operation.
C37_OutsideFullscreen ==
    /\ ~(lastop.op = "fullscreen" /\ lastop.arg = TRUE)
          => \A i \in ClientHooks(log) : Exclusive(log[i].snap)
    /\ \A i \in ClientHooks(log) :
          (\A j \in ClientHooks(log) : j <= i) => Exclusive(log[i].snap)

\* The requests of the pass that place the window win, as positions of dirs.
PlacementsOf(win) == {i \in 1..Len(dirs) : dirs[i].win = win}

\* The pass placed every stack member once, and its requests read in order
\* are the order of the windows, bottom first.
OnePlacementEach ==
    /\ \A c \in StackSet : Cardinality(PlacementsOf(cl[c].win)) = 1
    /\ Len(dirs) = Len(worder)
    /\ \A i \in 1..Len(dirs) : dirs[i].win = worder[i]

\* The clients with a transient parent that are classified into a real layer.
FlaggedTransients ==
    {c \in StackSet : /\ cl[c].transient_for # NULL
                      /\ client_layer_translator(cl[c]) # LAYER_IGNORE}

\* C38: in one restack pass (the transient relation has no cycle) every stack
\* member is placed exactly once, a client of a real layer by the layer sweep
\* and a client with a transient parent through the recursion from its
\* ancestor, so the requests read in order are the final order, bottom first.
C38_OnePlacementEach == AfterRestack => OnePlacementEach

\* What holds of it: the same when no client with a transient parent carries
\* a flag that puts it in a layer of its own.
C38_Unflagged == (AfterRestack /\ FlaggedTransients = {}) => OnePlacementEach

\* C39: the content rectangle of every client has a width and a height above
\* 0 in every reachable state: no resize, set_border, set_fullscreen or
\* set_maximized call commits a width or height that is 0 or below, whatever
\* the rectangle and the border (an outer size below twice the border included).
C39_ContentPositive ==
    \A c \in 1..Len(cl) : /\ cl[c].geometries.internal.width > 0
                          /\ cl[c].geometries.internal.height > 0

\* A resize to an outer width below twice the border has been committed.
C39_Witness ==
    /\ lastop.op = "resize"
    /\ lastop.arg.changed
    /\ lastop.arg.geometry.width < 2 * cl[lastop.c].border
    /\ cl[lastop.c].geometries.internal.width > 0

\* The screens whose focused client is set.
FocusHolders == {s \in Screens : focus[s] # NULL}

\* C40: in every state reached by focus, unfocus, ban, unban, manage and
\* unmanage calls over clients on several screens, at most one screen has a
\* focused client, that screen is the current focus screen, and a screen's
\* focused client is not banned and is that screen's previously focused client.
C40_SingleFocusHolder ==
    /\ Cardinality(FocusHolders) <= 1
    /\ \A s \in FocusHolders : /\ screen_focus = s
                               /\ ~cl[focus[s]].isbanned
                               /\ prev[s] = focus[s]

\* The focus has moved from a client of one screen to a client of the other.
C40_Witness ==
    /\ lastop.op = "focus"
    /\ \E s \in Screens : /\ focus[s] # NULL
                          /\ \E l \in 1..Len(log) :
                                /\ log[l].kind = "hook" /\ log[l].tag = "unfocus"
                                /\ cl[log[l].c].phys_screen # s

====
